---- MODULE Spec2Model ----
(***************************************************************************)
(* The ledger / payment-reconciliation core of puzzle-backend: deposits on *)
(* three rails (Stripe, Solana, Bitcoin), withdrawals, and the puzzle      *)
(* settlement, over the User wallet and the Transaction collection.        *)
(*                                                                         *)
(* Every request handler is an async function: it runs from one `await` to *)
(* the next without interruption, and other requests run in between.  One  *)
(* action of the model is one such segment of one handler.  A Mongoose     *)
(* document is a private copy of the stored document, read by find*() and  *)
(* written back by save(), which $sets the paths the handler modified.     *)
(*                                                                         *)
(* Money is in cents, native chain amounts in thousandths of a coin.       *)
(***************************************************************************)
EXTENDS Integers, Sequences, FiniteSets, TLC

\* ---------------------------------------------------------------- bounds
\* Deposit entries created in one behaviour.
MaxDeposits == 2
\* Puzzles created in one behaviour.
MaxPuzzles == 1
\* Attempts recorded on a puzzle before further solve requests are left out.
MaxAttempts == 2

\* Balance credits made for one entry before further deliveries of its
\* events are left out.
MaxCredits == 2

\* ------------------------------------------------------------ the domain
Users == {"alice", "bob", "carol"}
\* The user who funds a wallet from outside; the others earn by solving.
Depositors == {"alice"}
\* Request slots: two requests can be in flight at the same time.
Procs == {"r1", "r2"}
CryptoRails == {"solana", "bitcoin"}
Rails == {"stripe"} \cup CryptoRails

None == "none"
\* The id Stripe gives the payment intent made for the k-th ledger entry.
IntentIds == <<"pi_1", "pi_2", "pi_3", "pi_4">>
\* Chain transactions that exist on either chain, by hash.
Hashes == {"hExact", "hLow"}
\* Chain transactions that miss the expected amount by 2% and 4% below and
\* by 4% and 10% above: strictly inside or outside each rail's band.
ToleranceHashes == {"hLow2", "hLow4", "hHigh4", "hHigh10"}
\* Solana transactions that landed in a block with an error
\* (txInfo.meta.err is set); they name the expected amount.
FailedHashes == {"hFailed"}
\* What each of them paid to the platform wallet, in native units.
ReceivedAmount(h) ==
  CASE h = "hExact"  -> 1000
    [] h = "hFailed" -> 1000
    [] h = "hLow"    -> 900
    [] h = "hLow2"   -> 980
    [] h = "hLow4"   -> 960
    [] h = "hHigh4"  -> 1040
    [] h = "hHigh10" -> 1100

\* Amounts a client asks for.
DepositAmounts == {5000}
WithdrawAmounts == {3000}
\* A withdrawal that a wallet already charged for a puzzle can still cover.
SmallWithdrawAmounts == {1000}
PuzzleValues == {2000}
\* Spot price of a coin in cents at the time a deposit is created.
Rates == {5000}

\* The coins whose USD price the services ask the price provider for.
Assets == {"solana", "bitcoin"}

VARIABLES
  wallet,      \* User as stored: wallet.balance, totalEarnings, totalSpent
               \* and the crypto wallets among paymentMethods
  txs,         \* the Transaction collection, in order of insertion
  puzzles,     \* the Puzzle collection, in order of insertion
  intentPaid,  \* Stripe: the payment intents whose status is `succeeded`
  proc,        \* per request slot: the handler running there and its locals
  clock,       \* what `new Date()` reads; it advances with every timestamp
  credited,    \* history: per ledger entry, the balance credits made for it
  sent,        \* history: per user, what the rails accepted to pay out
  priceCache,        \* SolanaService: the SOL price last fetched, 0 = null
  priceCacheExpiry,  \* SolanaService: the time until which it is served
  provided     \* history: per asset, the last price the provider gave and
               \* the time it gave it; price 0 = none yet

rateVars == <<priceCache, priceCacheExpiry, provided>>

vars == <<wallet, txs, puzzles, intentPaid, proc, clock, credited, sent,
          rateVars>>

\* ------------------------------------------------------------- documents
\* src/unnamed/part_003:47-74, the wallet sub-document and its defaults.
\* With it, the paymentMethods of the user that hold a crypto wallet.
NewWallet ==
  [balance |-> 0, totalEarnings |-> 0, totalSpent |-> 0,
   paymentMethods |-> {}]

\* The local variables of a handler; `op` = "idle" is a free slot.
IdleProc ==
  [op |-> "idle", pc |-> "idle", rail |-> None, tx |-> 0, ref |-> None,
   user |-> None, udoc |-> NewWallet, amount |-> 0, result |-> None,
   extCalls |-> 0, wasCompleted |-> FALSE, preBalance |-> 0, preTx |-> None,
   pre |-> NewWallet,
   sweep |-> 0, sentFunds |-> FALSE, debited |-> FALSE, timedOut |-> FALSE,
   correct |-> FALSE, sig |-> None, preCreator |-> NewWallet,
   preAttempts |-> 0, dest |-> None, outage |-> FALSE, now |-> 0,
   utxos |-> <<>>, psbt |-> [inputs |-> <<>>, outputs |-> <<>>]]

\* A slot is free before its first request and after a response.  The slots
\* are interchangeable, so the second one is taken only while the first is
\* busy.
Idle(p) == proc[p].pc \in {"idle", "done"}
CanStart(p) == Idle(p) /\ (p = "r2" => ~Idle("r1"))

\* The platform wallet's recent chain transactions, newest first, as the
\* explorer lists them to monitorDeposits.
RecentTxs == <<"hExact", "hLow">>

\* What the handler in slot p becomes when it returns or throws: its locals
\* are gone, the outcome and the history fields stay.  Inside a
\* monitorDeposits sweep the call was made by processIncomingTransaction,
\* which logs the outcome and goes on with the next chain transaction.
Finish(p, res) ==
  IF proc[p].sweep > 0
  THEN [proc[p] EXCEPT !.pc = "processIncomingTransaction",
                       !.sweep = @ + 1, !.result = res,
                       !.user = None, !.udoc = NewWallet, !.amount = 0]
  ELSE [proc[p] EXCEPT !.pc = "done", !.result = res,
                       !.user = None, !.udoc = NewWallet, !.amount = 0]

\* transactionSchema.statics.createDeposit: the id is generated before the
\* document is built; status takes the schema default.
createDeposit(userId, amount, rail, expected, intent, externalTxId) ==
  [transactionId |-> TRUE, type |-> "deposit", status |-> "pending",
   fromUserId |-> None, toUserId |-> userId, usd |-> amount,
   rail |-> rail, expectedAmount |-> expected, paymentIntentId |-> intent,
   externalTransactionId |-> externalTxId, blockchainTxHash |-> None,
   processedAt |-> 0, failureReason |-> None, pastExpiry |-> FALSE]

\* transactionSchema.statics.createWithdrawal: no transactionId is given;
\* fees.processingFee is 2.50 on every rail.
createWithdrawal(userId, amount, rail, ref) ==
  [transactionId |-> FALSE, type |-> "withdrawal", status |-> "pending",
   fromUserId |-> userId, toUserId |-> None, usd |-> amount,
   rail |-> rail, expectedAmount |-> 0, paymentIntentId |-> None,
   externalTransactionId |-> None, blockchainTxHash |-> None,
   processedAt |-> 0, failureReason |-> None, pastExpiry |-> FALSE,
   processingFee |-> 250]

\* transactionSchema.statics.createPuzzleCreation / createPuzzleSolve: no
\* transactionId is given.
createPuzzleCreation(userId, amount) ==
  [transactionId |-> FALSE, type |-> "puzzle_creation", status |-> "pending",
   fromUserId |-> userId, toUserId |-> None, usd |-> amount,
   rail |-> "internal", expectedAmount |-> 0, paymentIntentId |-> None,
   externalTransactionId |-> None, blockchainTxHash |-> None,
   processedAt |-> 0, failureReason |-> None, pastExpiry |-> FALSE]

createPuzzleSolve(fromUserId, toUserId, amount) ==
  [transactionId |-> FALSE, type |-> "puzzle_solve", status |-> "pending",
   fromUserId |-> fromUserId, toUserId |-> toUserId, usd |-> amount,
   rail |-> "internal", expectedAmount |-> 0, paymentIntentId |-> None,
   externalTransactionId |-> None, blockchainTxHash |-> None,
   processedAt |-> 0, failureReason |-> None, pastExpiry |-> FALSE]

\* transactionSchema.statics.createAdminFee
createAdminFee(fromUserId, amount) ==
  [transactionId |-> FALSE, type |-> "admin_fee", status |-> "pending",
   fromUserId |-> fromUserId, toUserId |-> None, usd |-> amount,
   rail |-> "internal", expectedAmount |-> 0, paymentIntentId |-> None,
   externalTransactionId |-> None, blockchainTxHash |-> None,
   processedAt |-> 0, failureReason |-> None, pastExpiry |-> FALSE]

\* A Transaction whose paths carry no validator.
transactionUnchecked(doc) == TRUE

\* What save() validates on a Transaction before it runs the pre('save')
\* hook that would generate an id: transactionId is required.
transactionValid(doc) == doc.transactionId

\* usdToBtc / usdToSol: the native amount of a USD amount at a rate.
usdToNative(usd, rate) == (usd * 1000) \div rate

\* userSchema.methods.updateBalance(amount) on the private copy `doc`:
\* the copy after the in-memory arithmetic.
updateBalanceDoc(doc, amount) ==
  [balance |-> doc.balance + amount,
   totalEarnings |-> IF amount > 0 THEN doc.totalEarnings + amount
                     ELSE doc.totalEarnings,
   totalSpent |-> IF amount > 0 THEN doc.totalSpent
                  ELSE doc.totalSpent - amount]

\* A wallet whose fields carry no validator.
walletUnchecked(doc) == TRUE

\* The validators save() runs on the wallet: min 0 on every field.
walletValid(doc) ==
  doc.balance >= 0 /\ doc.totalEarnings >= 0 /\ doc.totalSpent >= 0

\* save() of a user document after updateBalance: the modified paths are
\* $set to the values of the private copy.
saveWallet(stored, doc, amount) ==
  IF amount > 0
  THEN [stored EXCEPT !.balance = doc.balance,
                      !.totalEarnings = doc.totalEarnings]
  ELSE [stored EXCEPT !.balance = doc.balance,
                      !.totalSpent = doc.totalSpent]

\* transactionSchema.methods.markCompleted on the stored entry.
markCompleted(t, externalTxId, blockchainTxHash, now) ==
  [t EXCEPT !.status = "completed",
            !.processedAt = now,
            !.externalTransactionId =
                IF externalTxId # None THEN externalTxId ELSE @,
            !.blockchainTxHash =
                IF blockchainTxHash # None THEN blockchainTxHash ELSE @]

\* transactionSchema.methods.markFailed on the stored entry.
markFailed(t, reason, now) ==
  [t EXCEPT !.status = "failed", !.processedAt = now,
            !.failureReason = reason]

\* The enum of the status path, which save() validates.
StatusEnum == {"pending", "completed", "failed", "cancelled", "refunded"}
statusValid(status) == status \in StatusEnum

\* ------------------------------------------------------------------ Init
Init ==
  /\ wallet = [u \in Users |-> NewWallet]
  /\ txs = <<>>
  /\ puzzles = <<>>
  /\ intentPaid = {}
  /\ proc = [p \in Procs |-> IdleProc]
  /\ clock = 0
  /\ credited = <<>>
  /\ sent = [u \in Users |-> 0]
  /\ priceCache = 0
  /\ priceCacheExpiry = 0
  /\ provided = [a \in Assets |-> [price |-> 0, at |-> 0]]

\* ------------------------------------------------------ deposit: create
Deposits == {i \in 1..Len(txs) : txs[i].type = "deposit"}

\* StripeService.createPaymentIntent: the intent is created at Stripe, then
\* the pending entry is saved with the intent id as external reference.
createPaymentIntent(u, a) ==
  /\ Cardinality(Deposits) < MaxDeposits
  /\ LET id == IntentIds[Len(txs) + 1] IN
       txs' = Append(txs, createDeposit(u, a, "stripe", 0, id, id))
  /\ credited' = Append(credited, 0)
  /\ UNCHANGED <<wallet, intentPaid, proc, clock, sent, puzzles, rateVars>>

\* BitcoinService / SolanaService.createDepositTransaction: the expected
\* native amount is computed at the current rate and stored in the entry.
createDepositTransaction(u, a, rail, rate) ==
  /\ Cardinality(Deposits) < MaxDeposits
  /\ txs' = Append(txs, createDeposit(u, a, rail, usdToNative(a, rate),
                                      None, None))
  /\ credited' = Append(credited, 0)
  /\ UNCHANGED <<wallet, intentPaid, proc, clock, sent, puzzles, rateVars>>

\* Time passes the expiresAt that createDepositTransaction returned to the
\* client for entry i (30 minutes after creation on Solana, 60 on Bitcoin).
\* The time is not stored in the entry; `pastExpiry` records that the
\* present is later.
expiresAt(i) ==
  /\ i \in Deposits
  /\ txs[i].rail \in CryptoRails
  /\ ~txs[i].pastExpiry
  /\ txs' = [txs EXCEPT ![i].pastExpiry = TRUE]
  /\ UNCHANGED <<wallet, intentPaid, proc, clock, credited, sent, puzzles,
                 rateVars>>

\* The customer pays the intent at Stripe (outside the program).
PayIntent(i) ==
  /\ txs[i].rail = "stripe"
  /\ txs[i].paymentIntentId \notin intentPaid
  /\ intentPaid' = intentPaid \cup {txs[i].paymentIntentId}
  /\ UNCHANGED <<wallet, txs, proc, clock, credited, sent, puzzles, rateVars>>

\* ----------------------------------------------------- deposit: confirm
\* A guard that lets every confirmation through.
neverCompleted(t) == FALSE

\* The idempotency guard of every confirmation path.
alreadyCompleted(t) == t.status = "completed"

\* One band for both rails.
tolerancePercentFlat(rail) == 5

\* The tolerance band of a rail, in percent of the expected amount.
tolerancePercent(rail) == IF rail = "bitcoin" THEN 5 ELSE 3

\* Math.abs(received - expected) > expected * tolerance
amountMismatch(rail, received, expected) ==
  LET diff == IF received >= expected THEN received - expected
              ELSE expected - received
  IN  100 * diff > tolerancePercent(rail) * expected

\* confirmDeposit runs for a client request or inside a monitorDeposits sweep.
ConfirmDepositOps == {"confirmDeposit", "monitorDeposits"}

\* A request starts in slot p.
Begin(p, op, pc, rail, t, ref) ==
  /\ CanStart(p)
  /\ proc' = [proc EXCEPT ![p] =
       [IdleProc EXCEPT !.op = op, !.pc = pc, !.rail = rail, !.tx = t,
                        !.ref = ref,
                        !.wasCompleted = (txs[t].status = "completed"),
                        !.preBalance = wallet[txs[t].toUserId].balance,
                        !.preTx = txs[t]]]

\* POST /solana/confirm-deposit, /bitcoin/confirm-deposit: the client names
\* an entry and a chain transaction hash.
confirmDeposit_call(p, rail, t, h) ==
  /\ t \in Deposits
  /\ Begin(p, "confirmDeposit", "findOne", rail, t, h)
  /\ UNCHANGED <<wallet, txs, intentPaid, clock, credited, sent, puzzles,
                 rateVars>>

\* confirmDeposit: findOne by transactionId, type and rail, then the status
\* checks that precede the chain lookup.
confirmDeposit_findOne(p) ==
  /\ proc[p].op \in ConfirmDepositOps /\ proc[p].pc = "findOne"
  /\ LET t == txs[proc[p].tx] IN
       proc' = [proc EXCEPT ![p] =
         IF t.rail # proc[p].rail THEN Finish(p, "notFound")
         ELSE IF alreadyCompleted(t) THEN Finish(p, "alreadyProcessed")
         ELSE IF proc[p].rail = "solana" /\ t.status = "expired"
              THEN Finish(p, "expired")
         ELSE [proc[p] EXCEPT !.pc = "getTransaction"]]
  /\ UNCHANGED <<wallet, txs, intentPaid, clock, credited, sent, puzzles,
                 rateVars>>

\* confirmDeposit: the chain lookup and the checks made on its answer.
confirmDeposit_getTransaction(p, available) ==
  /\ proc[p].op \in ConfirmDepositOps /\ proc[p].pc = "getTransaction"
  /\ LET t == txs[proc[p].tx]
         me == [proc[p] EXCEPT !.extCalls = @ + 1]
     IN proc' = [proc EXCEPT ![p] =
          IF ~available
            THEN [Finish(p, "railUnavailable") EXCEPT !.extCalls = @ + 1]
          ELSE IF proc[p].rail = "solana" /\ proc[p].ref \in FailedHashes
            THEN [Finish(p, "failedOnChain") EXCEPT !.extCalls = @ + 1]
          ELSE IF amountMismatch(proc[p].rail, ReceivedAmount(proc[p].ref),
                                 t.expectedAmount)
            THEN [Finish(p, "amountMismatch") EXCEPT !.extCalls = @ + 1]
          ELSE [me EXCEPT !.pc = "findUser"]]
  /\ UNCHANGED <<wallet, txs, intentPaid, clock, credited, sent, puzzles,
                 rateVars>>

\* The private copy of the user with an amount worked out again from what
\* the chain transaction paid.
findUserRederived(p, ops) ==
  /\ proc[p].op \in ops /\ proc[p].pc = "findUser"
  /\ LET t == txs[proc[p].tx]
         u == t.toUserId
     IN proc' = [proc EXCEPT
          ![p].user = u, ![p].udoc = wallet[u],
          ![p].amount = IF t.expectedAmount = 0 THEN t.usd
                        ELSE (t.usd * ReceivedAmount(proc[p].ref))
                               \div t.expectedAmount,
          ![p].pc = "updateBalance"]
  /\ UNCHANGED <<wallet, txs, intentPaid, clock, credited, sent, puzzles,
                 rateVars>>

\* User.findById(transaction.toUserId): the private copy of the user.
findUser(p, ops) ==
  /\ proc[p].op \in ops /\ proc[p].pc = "findUser"
  /\ LET u == txs[proc[p].tx].toUserId IN
       proc' = [proc EXCEPT ![p].user = u, ![p].udoc = wallet[u],
                            ![p].amount = txs[proc[p].tx].usd,
                            ![p].pc = "updateBalance"]
  /\ UNCHANGED <<wallet, txs, intentPaid, clock, credited, sent, puzzles,
                 rateVars>>

\* user.updateBalance(amount) for the entry: arithmetic on the private copy
\* and save().
creditUser(p, ops) ==
  /\ proc[p].op \in ops /\ proc[p].pc = "updateBalance"
  /\ LET u == proc[p].user
         doc == updateBalanceDoc(proc[p].udoc, proc[p].amount)
     IN /\ wallet' = [wallet EXCEPT ![u] = saveWallet(@, doc, proc[p].amount)]
        /\ proc' = [proc EXCEPT ![p].udoc = doc, ![p].pc = "markCompleted"]
  /\ credited' = [credited EXCEPT ![proc[p].tx] = @ + 1]
  /\ UNCHANGED <<txs, intentPaid, clock, sent, puzzles, rateVars>>

confirmDeposit_findUser(p) == findUser(p, ConfirmDepositOps)
confirmDeposit_updateBalance(p) == creditUser(p, ConfirmDepositOps)

\* confirmDeposit: transaction.markCompleted(null, txHash)
confirmDeposit_markCompleted(p) ==
  /\ proc[p].op \in ConfirmDepositOps /\ proc[p].pc = "markCompleted"
  /\ txs' = [txs EXCEPT ![proc[p].tx] =
               markCompleted(@, None, proc[p].ref, clock + 1)]
  /\ clock' = clock + 1
  /\ proc' = [proc EXCEPT ![p] = Finish(p, "confirmed")]
  /\ UNCHANGED <<wallet, intentPaid, credited, sent, puzzles, rateVars>>

\* BitcoinService.monitorDeposits: list the platform wallet's recent chain
\* transactions, then processIncomingTransaction on each in turn.
monitorDeposits_call(p, available) ==
  /\ CanStart(p)
  /\ proc' = [proc EXCEPT ![p] =
       IF available
       THEN [IdleProc EXCEPT !.op = "monitorDeposits", !.rail = "bitcoin",
                             !.pc = "processIncomingTransaction",
                             !.sweep = 1, !.extCalls = 1]
       ELSE [IdleProc EXCEPT !.op = "monitorDeposits", !.rail = "bitcoin",
                             !.pc = "done", !.result = "railUnavailable",
                             !.extCalls = 1]]
  /\ UNCHANGED <<wallet, txs, intentPaid, clock, credited, sent, puzzles,
                 rateVars>>

\* The pending Bitcoin deposits whose expected amount is within tolerance
\* of what the chain transaction paid to the platform wallet.
matchingPending(received) ==
  {i \in Deposits : /\ txs[i].rail = "bitcoin"
                    /\ txs[i].status = "pending"
                    /\ ~amountMismatch("bitcoin", received,
                                       txs[i].expectedAmount)}

firstOf(S) == CHOOSE i \in S : \A j \in S : i <= j

\* BitcoinService.processIncomingTransaction for the next listed chain
\* transaction: the first pending deposit that matches its amount is
\* confirmed with its hash.
processIncomingTransaction(p) ==
  /\ proc[p].op = "monitorDeposits"
  /\ proc[p].pc = "processIncomingTransaction"
  /\ IF proc[p].sweep > Len(RecentTxs)
     THEN proc' = [proc EXCEPT ![p].pc = "done", ![p].sweep = 0,
                               ![p].result = "swept"]
     ELSE LET h == RecentTxs[proc[p].sweep]
              m == matchingPending(ReceivedAmount(h))
          IN IF m = {}
             THEN proc' = [proc EXCEPT ![p].sweep = @ + 1]
             ELSE proc' = [proc EXCEPT ![p] =
                    [proc[p] EXCEPT
                       !.pc = "findOne", !.tx = firstOf(m), !.ref = h,
                       !.wasCompleted = FALSE,
                       !.preBalance = wallet[txs[firstOf(m)].toUserId].balance,
                       !.preTx = txs[firstOf(m)]]]
  /\ UNCHANGED <<wallet, txs, intentPaid, clock, credited, sent, puzzles,
                 rateVars>>

\* StripeService.confirmPayment(paymentIntentId), called by POST
\* /stripe/confirm-payment and, for POST /stripe/webhook, by handleWebhook's
\* handlePaymentIntentSucceeded, which catches and logs what it throws.
confirmPayment_call(p, t) ==
  /\ t \in Deposits /\ txs[t].rail = "stripe"
  /\ Begin(p, "confirmPayment", "retrieve", "stripe", t,
           txs[t].paymentIntentId)
  /\ UNCHANGED <<wallet, txs, intentPaid, clock, credited, sent, puzzles,
                 rateVars>>

\* confirmPayment: paymentIntents.retrieve and the status test on it.
confirmPayment_retrieve(p, available) ==
  /\ proc[p].op = "confirmPayment" /\ proc[p].pc = "retrieve"
  /\ proc' = [proc EXCEPT ![p] =
       IF ~available
         THEN [Finish(p, "railUnavailable") EXCEPT !.extCalls = @ + 1]
       ELSE IF proc[p].ref \notin intentPaid
         THEN [Finish(p, "notSuccessful") EXCEPT !.extCalls = @ + 1]
       ELSE [proc[p] EXCEPT !.extCalls = @ + 1, !.pc = "findOne"]]
  /\ UNCHANGED <<wallet, txs, intentPaid, clock, credited, sent, puzzles,
                 rateVars>>

\* confirmPayment: findOne by externalTransactionId, then the status check.
confirmPayment_findOne(p) ==
  /\ proc[p].op = "confirmPayment" /\ proc[p].pc = "findOne"
  /\ proc' = [proc EXCEPT ![p] =
       IF alreadyCompleted(txs[proc[p].tx])
         THEN Finish(p, "alreadyProcessed")
         ELSE [proc[p] EXCEPT !.pc = "findUser"]]
  /\ UNCHANGED <<wallet, txs, intentPaid, clock, credited, sent, puzzles,
                 rateVars>>

\* The metadata createPaymentIntent gives the intent of an entry: the user
\* and the amount of the request, which are the entry's.
intentMetadata(t) == [userId |-> t.toUserId, originalAmount |-> t.usd]

\* confirmPayment: User.findById(paymentIntent.metadata.userId); the amount
\* is parseFloat(paymentIntent.metadata.originalAmount).
confirmPayment_findUser(p) ==
  /\ proc[p].op = "confirmPayment" /\ proc[p].pc = "findUser"
  /\ LET md == intentMetadata(txs[proc[p].tx]) IN
       proc' = [proc EXCEPT ![p].user = md.userId,
                            ![p].udoc = wallet[md.userId],
                            ![p].amount = md.originalAmount,
                            ![p].pc = "updateBalance"]
  /\ UNCHANGED <<wallet, txs, intentPaid, clock, credited, sent, puzzles,
                 rateVars>>
confirmPayment_updateBalance(p) == creditUser(p, {"confirmPayment"})

\* confirmPayment: transaction.markCompleted(paymentIntentId)
confirmPayment_markCompleted(p) ==
  /\ proc[p].op = "confirmPayment" /\ proc[p].pc = "markCompleted"
  /\ txs' = [txs EXCEPT ![proc[p].tx] =
               markCompleted(@, proc[p].ref, None, clock + 1)]
  /\ clock' = clock + 1
  /\ proc' = [proc EXCEPT ![p] = Finish(p, "confirmed")]
  /\ UNCHANGED <<wallet, intentPaid, credited, sent, puzzles, rateVars>>

\* The stripe-signature header of a webhook request.
Signatures == {"valid", "invalid", "missing"}

\* The events the webhook routes dispatch on.
EventTypes == {"payment_intent.succeeded", "payment_intent.payment_failed"}

\* A mutation of the verification: every request is taken as signed.
constructEventAny(sig) == TRUE

\* stripe.webhooks.constructEvent(body, sig, secret): it returns the event
\* for a signature made with the endpoint secret and throws otherwise.
constructEvent(sig) == sig = "valid"

\* The handler a webhook route calls for an event type.
handlerOf(type) ==
  IF type = "payment_intent.succeeded" THEN "handlePaymentIntentSucceeded"
  ELSE "handlePaymentIntentFailed"

\* What Stripe itself sends: payment_intent.succeeded only for an intent
\* that succeeded; payment_intent.payment_failed for an attempt that failed
\* before that.  Stripe re-delivers events and keeps no order between them.
\* A request that Stripe did not sign can say anything.
genuine(type, t) ==
  type = "payment_intent.succeeded" => txs[t].paymentIntentId \in intentPaid

\* POST /webhooks/stripe for an event that names the payment intent of
\* entry t: constructEvent, then the handler of the event type.
stripeWebhook(p, t, type, sig) ==
  /\ t \in Deposits /\ txs[t].rail = "stripe"
  /\ sig = "valid" => genuine(type, t)
  /\ CanStart(p)
  /\ LET me == [IdleProc EXCEPT
                  !.op = handlerOf(type), !.rail = "stripe", !.tx = t,
                  !.ref = txs[t].paymentIntentId, !.sig = sig,
                  !.wasCompleted = (txs[t].status = "completed"),
                  !.preBalance = wallet[txs[t].toUserId].balance,
                  !.preTx = txs[t]]
     IN proc' = [proc EXCEPT ![p] =
          IF constructEvent(sig) THEN [me EXCEPT !.pc = "findOne"]
          ELSE [me EXCEPT !.pc = "done", !.result = "invalidSignature"]]
  /\ UNCHANGED <<wallet, txs, intentPaid, clock, credited, sent, puzzles,
                 rateVars>>

\* POST /webhooks/stripe with a verified payment_intent.succeeded event:
\* handlePaymentIntentSucceeded finds the entry by its payment intent id.
handlePaymentIntentSucceeded_call(p, t) ==
  stripeWebhook(p, t, "payment_intent.succeeded", "valid")

handlePaymentIntentSucceeded_findOne(p) ==
  /\ proc[p].op = "handlePaymentIntentSucceeded" /\ proc[p].pc = "findOne"
  /\ proc' = [proc EXCEPT ![p] =
       IF alreadyCompleted(txs[proc[p].tx])
         THEN Finish(p, "alreadyProcessed")
         ELSE [proc[p] EXCEPT !.pc = "findUser"]]
  /\ UNCHANGED <<wallet, txs, intentPaid, clock, credited, sent, puzzles,
                 rateVars>>

handlePaymentIntentSucceeded_findUser(p) ==
  findUser(p, {"handlePaymentIntentSucceeded"})
handlePaymentIntentSucceeded_updateBalance(p) ==
  creditUser(p, {"handlePaymentIntentSucceeded"})

\* handlePaymentIntentSucceeded: transaction.markCompleted(null, intent id)
handlePaymentIntentSucceeded_markCompleted(p) ==
  /\ proc[p].op = "handlePaymentIntentSucceeded"
  /\ proc[p].pc = "markCompleted"
  /\ txs' = [txs EXCEPT ![proc[p].tx] =
               markCompleted(@, None, proc[p].ref, clock + 1)]
  /\ clock' = clock + 1
  /\ proc' = [proc EXCEPT ![p] = Finish(p, "confirmed")]
  /\ UNCHANGED <<wallet, intentPaid, credited, sent, puzzles, rateVars>>

\* handlePaymentIntentFailed of routes/webhooks.js: the entry is found by
\* its payment intent id; no test of its status follows.
handlePaymentIntentFailed_findOne(p) ==
  /\ proc[p].op = "handlePaymentIntentFailed" /\ proc[p].pc = "findOne"
  /\ proc' = [proc EXCEPT ![p].pc = "save"]
  /\ UNCHANGED <<wallet, txs, intentPaid, clock, credited, sent, puzzles,
                 rateVars>>

\* handlePaymentIntentFailed of routes/webhooks.js: status = 'failed',
\* failureReason, save().
handlePaymentIntentFailed_save(p) ==
  /\ proc[p].op = "handlePaymentIntentFailed" /\ proc[p].pc = "save"
  /\ txs' = [txs EXCEPT ![proc[p].tx] =
               [@ EXCEPT !.status = "failed",
                         !.failureReason = "Payment failed"]]
  /\ proc' = [proc EXCEPT ![p] = Finish(p, "markedFailed")]
  /\ UNCHANGED <<wallet, intentPaid, clock, credited, sent, puzzles, rateVars>>

\* The charge ids Stripe names in a dispute.  No entry stores one: the
\* blockchainTxHash of a card deposit is its payment intent id.
ChargeIds == {"ch_1"}

\* POST /webhooks/stripe with a charge.dispute.created event and
\* handleChargeDispute: the entry is looked up by blockchainTxHash =
\* dispute.charge; for one found, status = 'disputed' and save(), which
\* validates the status against its enum; the handler logs what is thrown.
handleChargeDispute(p, charge, sig) ==
  /\ CanStart(p)
  /\ LET me == [IdleProc EXCEPT !.op = "handleChargeDispute",
                                !.rail = "stripe", !.ref = charge,
                                !.sig = sig, !.pc = "done"]
         found == {i \in 1..Len(txs) : txs[i].blockchainTxHash = charge}
     IN IF ~constructEvent(sig)
          THEN /\ proc' = [proc EXCEPT ![p] =
                    [me EXCEPT !.result = "invalidSignature"]]
               /\ txs' = txs
        ELSE IF found = {}
          THEN /\ proc' = [proc EXCEPT ![p] =
                    [me EXCEPT !.result = "noTransaction"]]
               /\ txs' = txs
        ELSE IF statusValid("disputed")
          THEN /\ proc' = [proc EXCEPT ![p] =
                    [me EXCEPT !.result = "disputed"]]
               /\ txs' = [txs EXCEPT ![firstOf(found)].status = "disputed"]
        ELSE /\ proc' = [proc EXCEPT ![p] =
                  [me EXCEPT !.result = "validationError"]]
             /\ txs' = txs
  /\ UNCHANGED <<wallet, intentPaid, clock, credited, sent, puzzles, rateVars>>

\* POST /payments/stripe/webhook: a request without the signature header
\* is answered 400; verifyWebhookSignature (constructEvent) throws for a
\* bad one; handleWebhook then calls confirmPayment for
\* payment_intent.succeeded and StripeService.handlePaymentIntentFailed
\* for payment_intent.payment_failed, and both log what is thrown.
paymentsWebhook(p, t, type, sig) ==
  /\ t \in Deposits /\ txs[t].rail = "stripe"
  /\ sig = "valid" => genuine(type, t)
  /\ CanStart(p)
  /\ LET me == [IdleProc EXCEPT
                  !.op = IF type = "payment_intent.succeeded"
                         THEN "confirmPayment"
                         ELSE "StripeService_handlePaymentIntentFailed",
                  !.rail = "stripe", !.tx = t,
                  !.ref = txs[t].paymentIntentId, !.sig = sig,
                  !.wasCompleted = (txs[t].status = "completed"),
                  !.preBalance = wallet[txs[t].toUserId].balance,
                  !.preTx = txs[t]]
     IN proc' = [proc EXCEPT ![p] =
          IF sig = "missing"
            THEN [me EXCEPT !.pc = "done", !.result = "missingSignature"]
          ELSE IF ~constructEvent(sig)
            THEN [me EXCEPT !.pc = "done", !.result = "invalidSignature"]
          ELSE IF type = "payment_intent.succeeded"
            THEN [me EXCEPT !.pc = "retrieve"]
          ELSE [me EXCEPT !.pc = "findOne"]]
  /\ UNCHANGED <<wallet, txs, intentPaid, clock, credited, sent, puzzles,
                 rateVars>>

\* StripeService.handlePaymentIntentFailed: findOne by
\* externalTransactionId, and the test that the entry is pending.
StripeService_handlePaymentIntentFailed_findOne(p) ==
  /\ proc[p].op = "StripeService_handlePaymentIntentFailed"
  /\ proc[p].pc = "findOne"
  /\ proc' = [proc EXCEPT ![p] =
       IF txs[proc[p].tx].status = "pending"
         THEN [proc[p] EXCEPT !.pc = "markFailed"]
         ELSE Finish(p, "ignored")]
  /\ UNCHANGED <<wallet, txs, intentPaid, clock, credited, sent, puzzles,
                 rateVars>>

\* StripeService.handlePaymentIntentFailed: transaction.markFailed(reason)
StripeService_handlePaymentIntentFailed_markFailed(p) ==
  /\ proc[p].op = "StripeService_handlePaymentIntentFailed"
  /\ proc[p].pc = "markFailed"
  /\ txs' = [txs EXCEPT ![proc[p].tx] =
               markFailed(@, "Payment failed", clock + 1)]
  /\ clock' = clock + 1
  /\ proc' = [proc EXCEPT ![p] = Finish(p, "markedFailed")]
  /\ UNCHANGED <<wallet, intentPaid, credited, sent, puzzles, rateVars>>

NextStripe ==
  \/ \E u \in Depositors, a \in DepositAmounts : createPaymentIntent(u, a)
  \/ \E i \in 1..Len(txs) : PayIntent(i)
  \/ \E p \in Procs, t \in 1..Len(txs) : confirmPayment_call(p, t)
  \/ \E p \in Procs, ok \in BOOLEAN : confirmPayment_retrieve(p, ok)
  \/ \E p \in Procs : confirmPayment_findOne(p)
  \/ \E p \in Procs : confirmPayment_findUser(p)
  \/ \E p \in Procs : confirmPayment_updateBalance(p)
  \/ \E p \in Procs : confirmPayment_markCompleted(p)
  \/ \E p \in Procs, t \in 1..Len(txs) :
       handlePaymentIntentSucceeded_call(p, t)
  \/ \E p \in Procs : handlePaymentIntentSucceeded_findOne(p)
  \/ \E p \in Procs : handlePaymentIntentSucceeded_findUser(p)
  \/ \E p \in Procs : handlePaymentIntentSucceeded_updateBalance(p)
  \/ \E p \in Procs : handlePaymentIntentSucceeded_markCompleted(p)

SpecStripe == Init /\ [][NextStripe]_vars

NextCrypto ==
  \/ \E u \in Depositors, a \in DepositAmounts, r \in CryptoRails,
        x \in Rates : createDepositTransaction(u, a, r, x)
  \/ \E p \in Procs, r \in CryptoRails, t \in 1..Len(txs), h \in Hashes :
       confirmDeposit_call(p, r, t, h)
  \/ \E p \in Procs : confirmDeposit_findOne(p)
  \/ \E p \in Procs, ok \in BOOLEAN : confirmDeposit_getTransaction(p, ok)
  \/ \E p \in Procs : confirmDeposit_findUser(p)
  \/ \E p \in Procs : confirmDeposit_updateBalance(p)
  \/ \E p \in Procs : confirmDeposit_markCompleted(p)
  \/ \E p \in Procs, ok \in BOOLEAN : monitorDeposits_call(p, ok)
  \/ \E p \in Procs : processIncomingTransaction(p)

\* ------------------------------------------------------------ withdrawal
\* The flat fee and the minimum of processWithdrawal, per rail.
withdrawalFee(rail) == IF rail = "bitcoin" THEN 500 ELSE 250
minWithdrawal(rail) == IF rail = "bitcoin" THEN 2500 ELSE 1000
\* The fee POST /withdraw uses for its own balance check.
routeFee(rail) == IF rail = "stripe" THEN 150 ELSE 250

\* The reference a rail returns for an accepted transfer.
TransferRef == "transfer"

\* What a client may send as destination: an address or account of the
\* rail, a string of ten or more characters that is neither, and a string
\* shorter than ten characters.
Destinations == {"valid", "malformed", "short"}

\* body('destination').isLength({ min: 10, max: 200 })
destinationLengthValid(dest) == dest # "short"

\* BitcoinService.validateAddress / SolanaService.validateWalletAddress
validateAddress(dest) == dest = "valid"

\* POST /withdraw with a destination: withdrawalValidation, the balance
\* pre-check on req.user, then the rail's processWithdrawal is called.
withdraw(p, u, rail, a, dest) ==
  /\ CanStart(p)
  /\ LET me == [IdleProc EXCEPT !.op = "processWithdrawal", !.rail = rail,
                                !.user = u, !.amount = a, !.dest = dest,
                                !.preBalance = wallet[u].balance]
     IN proc' = [proc EXCEPT ![p] =
          IF ~destinationLengthValid(dest)
          THEN [me EXCEPT !.pc = "done", !.result = "validationFailed"]
          ELSE IF wallet[u].balance = 0
                  \/ wallet[u].balance < a + routeFee(rail)
          THEN [me EXCEPT !.pc = "done", !.result = "insufficient"]
          ELSE [me EXCEPT !.pc = "findById"]]
  /\ UNCHANGED <<wallet, txs, intentPaid, clock, credited, sent, puzzles,
                 rateVars>>

\* POST /withdraw with a destination the rail accepts.
processWithdrawal_call(p, u, rail, a) == withdraw(p, u, rail, a, "valid")

\* processWithdrawal: User.findById and the checks on the private copy,
\* the address check of the crypto rails last.
processWithdrawal_findById(p) ==
  /\ proc[p].op = "processWithdrawal" /\ proc[p].pc = "findById"
  /\ LET doc == wallet[proc[p].user]
         total == proc[p].amount + withdrawalFee(proc[p].rail)
     IN proc' = [proc EXCEPT ![p] =
          IF proc[p].amount < minWithdrawal(proc[p].rail)
            THEN [proc[p] EXCEPT !.pc = "done", !.result = "belowMinimum"]
          ELSE IF doc.balance < total
            THEN [proc[p] EXCEPT !.pc = "done", !.result = "insufficient"]
          ELSE IF proc[p].rail \in CryptoRails /\ ~validateAddress(proc[p].dest)
            THEN [proc[p] EXCEPT !.pc = "done",
                                 !.result = "invalidDestination"]
          ELSE [proc[p] EXCEPT !.udoc = doc, !.pc = "transfer"]]
  /\ UNCHANGED <<wallet, txs, intentPaid, clock, credited, sent, puzzles,
                 rateVars>>

\* processWithdrawal: the outbound transfer (transfers.create,
\* sendAndConfirmTransaction, broadcastTransaction), which the rail accepts
\* or rejects.
processWithdrawal_transfer(p, accepted) ==
  /\ proc[p].op = "processWithdrawal" /\ proc[p].pc = "transfer"
  /\ accepted => proc[p].dest = "valid"
  /\ IF accepted
     THEN /\ sent' = [sent EXCEPT ![proc[p].user] =
                   @ + proc[p].amount + withdrawalFee(proc[p].rail)]
          /\ proc' = [proc EXCEPT ![p].pc = "updateBalance",
                                  ![p].ref = TransferRef,
                                  ![p].extCalls = @ + 1,
                                  ![p].sentFunds = TRUE]
     ELSE /\ sent' = sent
          /\ proc' = [proc EXCEPT ![p].pc = "done",
                                  ![p].result = "transferFailed",
                                  ![p].extCalls = @ + 1]
  /\ UNCHANGED <<wallet, txs, intentPaid, clock, credited, puzzles, rateVars>>

\* processWithdrawal: user.updateBalance(-totalDeduction)
processWithdrawal_updateBalance(p) ==
  /\ proc[p].op = "processWithdrawal" /\ proc[p].pc = "updateBalance"
  /\ LET u == proc[p].user
         amt == 0 - (proc[p].amount + withdrawalFee(proc[p].rail))
         doc == updateBalanceDoc(proc[p].udoc, amt)
     IN IF walletValid(doc)
        THEN /\ wallet' = [wallet EXCEPT ![u] = saveWallet(@, doc, amt)]
             /\ proc' = [proc EXCEPT ![p].udoc = doc, ![p].pc = "save",
                                     ![p].debited = TRUE]
        ELSE /\ wallet' = wallet
             /\ proc' = [proc EXCEPT ![p].pc = "done",
                                     ![p].result = "validationError"]
  /\ UNCHANGED <<txs, intentPaid, clock, credited, sent, puzzles, rateVars>>

\* processWithdrawal: createWithdrawal, status completed, processedAt, the
\* rail's reference, save().
processWithdrawal_save(p) ==
  /\ proc[p].op = "processWithdrawal" /\ proc[p].pc = "save"
  /\ LET doc == [createWithdrawal(proc[p].user, proc[p].amount,
                                  proc[p].rail, proc[p].ref)
                   EXCEPT !.status = "completed",
                          !.processedAt = clock + 1,
                          !.externalTransactionId =
                             IF proc[p].rail = "stripe" THEN proc[p].ref
                             ELSE None,
                          !.blockchainTxHash =
                             IF proc[p].rail = "stripe" THEN None
                             ELSE proc[p].ref]
     IN IF transactionValid(doc)
        THEN /\ txs' = Append(txs, doc)
             /\ credited' = Append(credited, 0)
             /\ clock' = clock + 1
             /\ proc' = [proc EXCEPT ![p].pc = "done",
                                     ![p].result = "completed",
                                     ![p].tx = Len(txs) + 1]
        ELSE /\ UNCHANGED <<txs, credited, clock>>
             /\ proc' = [proc EXCEPT ![p].pc = "done",
                                     ![p].result = "validationError"]
  /\ UNCHANGED <<wallet, intentPaid, sent, puzzles, rateVars>>

\* POST /withdraw: withTimeout rejects while processWithdrawal is still
\* running; the client is answered with the timeout error and the call goes
\* on.
withdraw_timeout(p) ==
  /\ proc[p].op = "processWithdrawal"
  /\ proc[p].pc \in {"findById", "transfer", "updateBalance", "save"}
  /\ ~proc[p].timedOut
  /\ proc' = [proc EXCEPT ![p].timedOut = TRUE]
  /\ UNCHANGED <<wallet, txs, puzzles, intentPaid, clock, credited, sent,
                 rateVars>>

\* Funding a wallet with one card deposit through the Stripe webhook, as
\* far as the other flows need it.
NextFunding ==
  \/ \E u \in Depositors, a \in DepositAmounts :
       txs = <<>> /\ createPaymentIntent(u, a)
  \/ \E i \in 1..Len(txs) : PayIntent(i)
  \/ \E p \in Procs, t \in 1..Len(txs) :
       handlePaymentIntentSucceeded_call(p, t)
  \/ \E p \in Procs : handlePaymentIntentSucceeded_findOne(p)
  \/ \E p \in Procs : handlePaymentIntentSucceeded_findUser(p)
  \/ \E p \in Procs : handlePaymentIntentSucceeded_updateBalance(p)
  \/ \E p \in Procs : handlePaymentIntentSucceeded_markCompleted(p)

NextWithdrawal ==
  \/ \E p \in Procs, u \in Depositors, r \in Rails, a \in WithdrawAmounts :
       processWithdrawal_call(p, u, r, a)
  \/ \E p \in Procs : processWithdrawal_findById(p)
  \/ \E p \in Procs, ok \in BOOLEAN : processWithdrawal_transfer(p, ok)
  \/ \E p \in Procs : processWithdrawal_updateBalance(p)
  \/ \E p \in Procs : processWithdrawal_save(p)

SpecWithdrawal == Init /\ [][NextFunding \/ NextWithdrawal]_vars

\* ---------------------------------------------------------------- puzzle
\* The admin fee POST /puzzles adds to the value.
adminFee == 100

\* POST /puzzles: the balance check on req.user, then puzzle.save().
createPuzzle_call(p, u, v) ==
  /\ CanStart(p)
  /\ Len(puzzles) < MaxPuzzles
  /\ LET me == [IdleProc EXCEPT !.op = "createPuzzle", !.user = u,
                                !.udoc = wallet[u], !.amount = v,
                                !.preBalance = wallet[u].balance]
     IN proc' = [proc EXCEPT ![p] =
          IF wallet[u].balance < v + adminFee
          THEN [me EXCEPT !.pc = "done", !.result = "insufficient",
                          !.udoc = NewWallet]
          ELSE [me EXCEPT !.pc = "savePuzzle"]]
  /\ UNCHANGED <<wallet, txs, puzzles, intentPaid, clock, credited, sent,
                 rateVars>>

\* POST /puzzles: the puzzle is stored.
createPuzzle_savePuzzle(p) ==
  /\ proc[p].op = "createPuzzle" /\ proc[p].pc = "savePuzzle"
  /\ Len(puzzles) < MaxPuzzles
  /\ puzzles' = Append(puzzles,
       [status |-> "active", solved |-> FALSE, creatorId |-> proc[p].user,
        value |-> proc[p].amount, attempts |-> 0, solverId |-> None,
        payoutProcessed |-> FALSE, payouts |-> 0, refunds |-> 0])
  /\ proc' = [proc EXCEPT ![p].pc = "updateBalance",
                          ![p].tx = Len(puzzles) + 1]
  /\ UNCHANGED <<wallet, txs, intentPaid, clock, credited, sent, rateVars>>

\* POST /puzzles: req.user.updateBalance(-totalCost)
createPuzzle_updateBalance(p) ==
  /\ proc[p].op = "createPuzzle" /\ proc[p].pc = "updateBalance"
  /\ LET u == proc[p].user
         amt == 0 - (proc[p].amount + adminFee)
         doc == updateBalanceDoc(proc[p].udoc, amt)
     IN IF walletValid(doc)
        THEN /\ wallet' = [wallet EXCEPT ![u] = saveWallet(@, doc, amt)]
             /\ proc' = [proc EXCEPT ![p].udoc = doc,
                                     ![p].pc = "saveTransaction",
                                     ![p].debited = TRUE]
        ELSE /\ wallet' = wallet
             /\ proc' = [proc EXCEPT ![p] = Finish(p, "validationError")]
  /\ UNCHANGED <<txs, puzzles, intentPaid, clock, credited, sent, rateVars>>

\* POST /puzzles: the puzzle_creation entry and, after it, the admin_fee
\* entry are built with status completed and saved.
createPuzzle_saveTransaction(p) ==
  /\ proc[p].op = "createPuzzle" /\ proc[p].pc = "saveTransaction"
  /\ LET doc == [createPuzzleCreation(proc[p].user, proc[p].amount)
                   EXCEPT !.status = "completed", !.processedAt = clock + 1]
         fee == [createAdminFee(proc[p].user, adminFee)
                   EXCEPT !.status = "completed", !.processedAt = clock + 1]
     IN IF transactionValid(doc)
        THEN /\ txs' = IF transactionValid(fee)
                         THEN Append(Append(txs, doc), fee)
                         ELSE Append(txs, doc)
             /\ credited' = IF transactionValid(fee)
                              THEN Append(Append(credited, 0), 0)
                              ELSE Append(credited, 0)
             /\ clock' = clock + 1
             /\ proc' = [proc EXCEPT ![p] =
                  Finish(p, IF transactionValid(fee) THEN "created"
                            ELSE "validationError")]
        ELSE /\ UNCHANGED <<txs, credited, clock>>
             /\ proc' = [proc EXCEPT ![p] = Finish(p, "validationError")]
  /\ UNCHANGED <<wallet, puzzles, intentPaid, sent, rateVars>>

\* POST /puzzles/:id/solve: `protect` reads the solver into req.user, then
\* the puzzle is looked up.
solve_call(p, u, k, correct) ==
  /\ CanStart(p)
  /\ k \in 1..Len(puzzles)
  /\ puzzles[k].attempts < MaxAttempts
  /\ proc' = [proc EXCEPT ![p] =
       [IdleProc EXCEPT !.op = "solve", !.pc = "findOne", !.user = u,
                        !.udoc = wallet[u], !.tx = k,
                        !.preBalance = wallet[u].balance,
                        !.preAttempts = puzzles[k].attempts,
                        !.correct = correct]]
  /\ UNCHANGED <<wallet, txs, puzzles, intentPaid, clock, credited, sent,
                 rateVars>>

\* puzzleSchema.methods.addAttempt on the private copy of the puzzle: the
\* attempt is pushed, and a correct one on an unsolved copy marks it solved.
addAttempt(doc, userId, isCorrect) ==
  [doc EXCEPT !.attempts = @ + 1,
              !.solved = IF isCorrect /\ ~doc.solved THEN TRUE ELSE @,
              !.solverId = IF isCorrect /\ ~doc.solved THEN userId ELSE @]

\* solve: Puzzle.findOne({_id, status: 'active'}) with the creator
\* populated, and the checks on the private copy of the puzzle.
solve_findOne(p) ==
  /\ proc[p].op = "solve" /\ proc[p].pc = "findOne"
  /\ LET doc == puzzles[proc[p].tx]
     IN proc' = [proc EXCEPT ![p] =
          IF doc.status # "active" THEN Finish(p, "notFound")
          ELSE IF doc.solved THEN Finish(p, "alreadySolved")
          ELSE IF doc.creatorId = proc[p].user THEN Finish(p, "ownPuzzle")
          ELSE [proc[p] EXCEPT !.pc = "savePuzzle",
                               !.amount = doc.value,
                               !.ref = doc.creatorId,
                               !.pre = wallet[doc.creatorId],
                               !.preCreator = wallet[doc.creatorId]]]
  /\ UNCHANGED <<wallet, txs, puzzles, intentPaid, clock, credited, sent,
                 rateVars>>

\* The same step without the `if (isCorrect)` that guards the settlement.
solve_savePuzzle_paying(p) ==
  /\ proc[p].op = "solve" /\ proc[p].pc = "savePuzzle"
  /\ LET k == proc[p].tx
         isCorrect == proc[p].correct
         copy == addAttempt([puzzles[k] EXCEPT !.solved = FALSE,
                                               !.solverId = None],
                            proc[p].user, isCorrect)
     IN /\ puzzles' = [puzzles EXCEPT ![k] =
             [@ EXCEPT !.attempts = @ + 1,
                       !.solved = IF isCorrect THEN copy.solved ELSE @,
                       !.solverId = IF isCorrect THEN copy.solverId ELSE @]]
        /\ proc' = [proc EXCEPT ![p].pc = "creditSolver"]
  /\ UNCHANGED <<wallet, txs, intentPaid, clock, credited, sent, rateVars>>

\* solve: addAttempt on the private copy, which passed the `solved` check,
\* and puzzle.save(): the attempt is pushed and the paths addAttempt
\* modified are $set.
solve_savePuzzle(p) ==
  /\ proc[p].op = "solve" /\ proc[p].pc = "savePuzzle"
  /\ LET k == proc[p].tx
         isCorrect == proc[p].correct
         copy == addAttempt([puzzles[k] EXCEPT !.solved = FALSE,
                                               !.solverId = None],
                            proc[p].user, isCorrect)
     IN /\ puzzles' = [puzzles EXCEPT ![k] =
             [@ EXCEPT !.attempts = @ + 1,
                       !.solved = IF isCorrect THEN copy.solved ELSE @,
                       !.solverId = IF isCorrect THEN copy.solverId ELSE @]]
        /\ proc' = [proc EXCEPT ![p] =
             IF isCorrect THEN [proc[p] EXCEPT !.pc = "creditSolver"]
             ELSE [Finish(p, "incorrect") EXCEPT !.pre = NewWallet,
                                                 !.ref = None]]
  /\ UNCHANGED <<wallet, txs, intentPaid, clock, credited, sent, rateVars>>

\* solve: req.user.updateBalance(puzzle.value)
solve_creditSolver(p) ==
  /\ proc[p].op = "solve" /\ proc[p].pc = "creditSolver"
  /\ LET u == proc[p].user
         doc == updateBalanceDoc(proc[p].udoc, proc[p].amount)
     IN /\ wallet' = [wallet EXCEPT ![u] = saveWallet(@, doc, proc[p].amount)]
        /\ proc' = [proc EXCEPT ![p].udoc = doc, ![p].pc = "debitCreator"]
  /\ puzzles' = [puzzles EXCEPT ![proc[p].tx].payouts = @ + 1]
  /\ UNCHANGED <<txs, intentPaid, clock, credited, sent, rateVars>>

\* solve: puzzle.creatorId.updateBalance(-puzzle.value) on the populated
\* copy of the creator.
solve_debitCreator(p) ==
  /\ proc[p].op = "solve" /\ proc[p].pc = "debitCreator"
  /\ LET c == proc[p].ref
         amt == 0 - proc[p].amount
         doc == updateBalanceDoc(proc[p].pre, amt)
     IN IF walletValid(doc)
        THEN /\ wallet' = [wallet EXCEPT ![c] = saveWallet(@, doc, amt)]
             /\ proc' = [proc EXCEPT ![p].pc = "saveTransaction",
                                     ![p].pre = NewWallet,
                                     ![p].debited = TRUE]
        ELSE /\ wallet' = wallet
             /\ proc' = [proc EXCEPT ![p] =
                  [Finish(p, "validationError") EXCEPT !.pre = NewWallet]]
  /\ UNCHANGED <<txs, puzzles, intentPaid, clock, credited, sent, rateVars>>

\* solve: the puzzle_solve entry is built with status completed and saved;
\* then payment.payoutProcessed is set on the puzzle.
solve_saveTransaction(p) ==
  /\ proc[p].op = "solve" /\ proc[p].pc = "saveTransaction"
  /\ LET doc == [createPuzzleSolve(proc[p].ref, proc[p].user, proc[p].amount)
                   EXCEPT !.status = "completed", !.processedAt = clock + 1]
     IN IF transactionValid(doc)
        THEN /\ txs' = Append(txs, doc)
             /\ credited' = Append(credited, 0)
             /\ clock' = clock + 1
             /\ puzzles' = [puzzles EXCEPT
                              ![proc[p].tx].payoutProcessed = TRUE]
             /\ proc' = [proc EXCEPT ![p] = Finish(p, "solved")]
        ELSE /\ UNCHANGED <<txs, credited, clock, puzzles>>
             /\ proc' = [proc EXCEPT ![p] = Finish(p, "validationError")]
  /\ UNCHANGED <<wallet, intentPaid, sent, rateVars>>

NextPuzzle ==
  \/ \E p \in Procs, u \in Depositors, v \in PuzzleValues :
       createPuzzle_call(p, u, v)
  \/ \E p \in Procs : createPuzzle_savePuzzle(p)
  \/ \E p \in Procs : createPuzzle_updateBalance(p)
  \/ \E p \in Procs : createPuzzle_saveTransaction(p)
  \/ \E p \in Procs, u \in Users, k \in 1..Len(puzzles), c \in BOOLEAN :
       solve_call(p, u, k, c)
  \/ \E p \in Procs : solve_findOne(p)
  \/ \E p \in Procs : solve_savePuzzle(p)
  \/ \E p \in Procs : solve_creditSolver(p)
  \/ \E p \in Procs : solve_debitCreator(p)
  \/ \E p \in Procs : solve_saveTransaction(p)

SpecPuzzle == Init /\ [][NextFunding \/ NextPuzzle]_vars

SpecCrypto == Init /\ [][NextCrypto]_vars

\* ------------------------------------------------------ whole programs
\* One request at a time: the second slot is never taken.
\* ---------------------------------------------------------- admin refund
\* POST /admin/transactions/:id/refund: findById with both users populated,
\* and the test that the entry is completed.
adminRefund_call(p, t) ==
  /\ CanStart(p)
  /\ t \in 1..Len(txs)
  /\ LET e == txs[t]
         me == [IdleProc EXCEPT
                  !.op = "adminRefund", !.tx = t, !.amount = e.usd,
                  !.preTx = e,
                  !.pre = IF e.fromUserId # None THEN wallet[e.fromUserId]
                          ELSE NewWallet,
                  !.udoc = IF e.toUserId # None THEN wallet[e.toUserId]
                           ELSE NewWallet]
     IN proc' = [proc EXCEPT ![p] =
          IF e.status # "completed"
          THEN [me EXCEPT !.pc = "done", !.result = "notCompleted",
                          !.pre = NewWallet, !.udoc = NewWallet, !.amount = 0]
          ELSE [me EXCEPT !.pc = "saveRefund"]]
  /\ UNCHANGED <<wallet, txs, puzzles, intentPaid, clock, credited, sent,
                 rateVars>>

\* The refund entry as the route builds it: no transactionId is given.
refundTransaction(e, now) ==
  [transactionId |-> FALSE, type |-> "refund", status |-> "completed",
   fromUserId |-> e.toUserId, toUserId |-> e.fromUserId, usd |-> e.usd,
   rail |-> "internal", expectedAmount |-> 0, paymentIntentId |-> None,
   externalTransactionId |-> None, blockchainTxHash |-> None,
   processedAt |-> now, failureReason |-> None, pastExpiry |-> FALSE]

\* refundTransaction.save(), and what the route does once that save has
\* succeeded: the payer of the entry is credited, its payee is debited, and
\* the entry is saved with status refunded.
adminRefund_saveRefund(p) ==
  /\ proc[p].op = "adminRefund" /\ proc[p].pc = "saveRefund"
  /\ LET t == proc[p].tx
         e == txs[t]
         doc == refundTransaction(e, clock + 1)
         amt == proc[p].amount
         credit == updateBalanceDoc(proc[p].pre, amt)
         debit == updateBalanceDoc(proc[p].udoc, 0 - amt)
         debitOk == e.toUserId = None \/ walletValid(debit)
         w1 == IF e.fromUserId # None
               THEN [wallet EXCEPT ![e.fromUserId] = saveWallet(@, credit, amt)]
               ELSE wallet
         w2 == IF e.toUserId # None /\ debitOk
               THEN [w1 EXCEPT ![e.toUserId] = saveWallet(@, debit, 0 - amt)]
               ELSE w1
     IN IF transactionValid(doc)
        THEN /\ wallet' = w2
             /\ txs' = Append(IF debitOk
                              THEN [txs EXCEPT ![t].status = "refunded"]
                              ELSE txs, doc)
             /\ credited' = Append(credited, 0)
             /\ clock' = clock + 1
             /\ proc' = [proc EXCEPT ![p] =
                  [Finish(p, IF debitOk THEN "refunded"
                             ELSE "validationError")
                     EXCEPT !.pre = NewWallet, !.debited = debitOk]]
        ELSE /\ UNCHANGED <<wallet, txs, credited, clock>>
             /\ proc' = [proc EXCEPT ![p] =
                  [Finish(p, "validationError") EXCEPT !.pre = NewWallet]]
  /\ UNCHANGED <<puzzles, intentPaid, sent, rateVars>>

\* ------------------------------------------------------------ rail reads
\* Addresses a user registers and what the chain holds for an address.
Addresses == {"addrA", "addrB"}
ChainBalances == {0, 700}

\* BitcoinService.getAddressBalance: the explorer's figure, and 0 when the
\* request fails (the catch block returns 0).
getAddressBalance(ok, onChain) == IF ok THEN onChain ELSE 0

\* BitcoinService.addWallet: validateAddress, User.findById, the test for
\* a wallet already added.
addWallet_call(p, u, address, dest) ==
  /\ CanStart(p)
  /\ LET me == [IdleProc EXCEPT !.op = "addWallet", !.user = u,
                                !.ref = address, !.dest = dest,
                                !.udoc = wallet[u]]
     IN proc' = [proc EXCEPT ![p] =
          IF ~validateAddress(dest)
          THEN [me EXCEPT !.pc = "done", !.result = "invalidAddress",
                          !.udoc = NewWallet]
          ELSE IF \E m \in wallet[u].paymentMethods : m.address = address
          THEN [me EXCEPT !.pc = "done", !.result = "alreadyAdded",
                          !.udoc = NewWallet]
          ELSE [me EXCEPT !.pc = "getAddressBalance"]]
  /\ UNCHANGED <<wallet, txs, puzzles, intentPaid, clock, credited, sent,
                 rateVars>>

\* addWallet: getAddressBalance(walletAddress) "to verify it exists", then
\* user.addPaymentMethod('bitcoin', walletData) stores the wallet with the
\* balance that was returned.
addWallet_getAddressBalance(p, ok, onChain) ==
  /\ proc[p].op = "addWallet" /\ proc[p].pc = "getAddressBalance"
  /\ LET u == proc[p].user
         balance == getAddressBalance(ok, onChain)
         walletData == [address |-> proc[p].ref, balance |-> balance,
                        verified |-> TRUE]
     IN /\ wallet' = [wallet EXCEPT ![u].paymentMethods = @ \cup {walletData}]
        /\ proc' = [proc EXCEPT ![p] =
             [Finish(p, "added") EXCEPT !.amount = balance,
                                        !.extCalls = @ + 1,
                                        !.outage = ~ok]]
  /\ UNCHANGED <<txs, puzzles, intentPaid, clock, credited, sent, rateVars>>

\* BitcoinService.getWalletBalance: validateAddress, getAddressBalance, and
\* the figure is returned.
getWalletBalance(p, address, dest, ok, onChain) ==
  /\ CanStart(p)
  /\ LET me == [IdleProc EXCEPT !.op = "getWalletBalance", !.ref = address,
                                !.dest = dest, !.pc = "done"]
     IN proc' = [proc EXCEPT ![p] =
          IF ~validateAddress(dest)
          THEN [me EXCEPT !.result = "invalidAddress"]
          ELSE [me EXCEPT !.result = "returned",
                          !.amount = getAddressBalance(ok, onChain),
                          !.extCalls = 1, !.outage = ~ok]]
  /\ UNCHANGED <<wallet, txs, puzzles, intentPaid, clock, credited, sent,
                 rateVars>>

Sequential == Idle("r2")'

NextSeqConfirm == (NextStripe \/ NextCrypto) /\ Sequential

\* Confirmations, one after the other.
SpecSeqConfirm == Init /\ [][NextSeqConfirm]_vars

\* Confirmations of crypto deposits, one request at a time, with chain
\* transactions on both sides of each rail's tolerance band.
NextTolerance ==
  /\ \/ \E u \in Depositors, a \in DepositAmounts, r \in CryptoRails,
           x \in Rates : createDepositTransaction(u, a, r, x)
     \/ \E p \in Procs, r \in CryptoRails, t \in 1..Len(txs),
           h \in Hashes \cup ToleranceHashes : confirmDeposit_call(p, r, t, h)
     \/ \E p \in Procs : confirmDeposit_findOne(p)
     \/ \E p \in Procs, ok \in BOOLEAN : confirmDeposit_getTransaction(p, ok)
     \/ \E p \in Procs : confirmDeposit_findUser(p)
     \/ \E p \in Procs : confirmDeposit_updateBalance(p)
     \/ \E p \in Procs : confirmDeposit_markCompleted(p)
  /\ Sequential

SpecTolerance == Init /\ [][NextTolerance]_vars

\* Every operation that debits a wallet, one request after the other.
NextDebits ==
  /\ \/ NextFunding
     \/ NextWithdrawal
     \/ \E p \in Procs, u \in Depositors, r \in Rails,
           a \in SmallWithdrawAmounts : processWithdrawal_call(p, u, r, a)
     \/ NextPuzzle
     \/ \E p \in Procs, t \in 1..Len(txs) : adminRefund_call(p, t)
     \/ \E p \in Procs : adminRefund_saveRefund(p)
  /\ Sequential

SpecDebits == Init /\ [][NextDebits]_vars

\* Confirmations of Solana deposits with chain transactions that succeeded
\* and that failed on chain, one request at a time.
NextChainFailure ==
  /\ \/ \E u \in Depositors, a \in DepositAmounts, r \in CryptoRails,
           x \in Rates : createDepositTransaction(u, a, r, x)
     \/ \E p \in Procs, t \in 1..Len(txs), h \in Hashes \cup FailedHashes :
          confirmDeposit_call(p, "solana", t, h)
     \/ \E p \in Procs : confirmDeposit_findOne(p)
     \/ \E p \in Procs, ok \in BOOLEAN : confirmDeposit_getTransaction(p, ok)
     \/ \E p \in Procs : confirmDeposit_findUser(p)
     \/ \E p \in Procs : confirmDeposit_updateBalance(p)
     \/ \E p \in Procs : confirmDeposit_markCompleted(p)
  /\ Sequential

SpecChainFailure == Init /\ [][NextChainFailure]_vars

\* Crypto deposits past and before their expiry time, confirmed by the
\* client or matched by the Bitcoin sweep, one request at a time.
NextExpiry ==
  /\ \/ \E u \in Depositors, a \in DepositAmounts, r \in CryptoRails,
           x \in Rates : createDepositTransaction(u, a, r, x)
     \/ \E i \in 1..Len(txs) : expiresAt(i)
     \/ \E p \in Procs, r \in CryptoRails, t \in 1..Len(txs), h \in Hashes :
          confirmDeposit_call(p, r, t, h)
     \/ \E p \in Procs : confirmDeposit_findOne(p)
     \/ \E p \in Procs, ok \in BOOLEAN : confirmDeposit_getTransaction(p, ok)
     \/ \E p \in Procs : confirmDeposit_findUser(p)
     \/ \E p \in Procs : confirmDeposit_updateBalance(p)
     \/ \E p \in Procs : confirmDeposit_markCompleted(p)
     \/ \E p \in Procs, ok \in BOOLEAN : monitorDeposits_call(p, ok)
     \/ \E p \in Procs : processIncomingTransaction(p)
  /\ Sequential

SpecExpiry == Init /\ [][NextExpiry]_vars

\* The same under fair scheduling: time passes every expiry, a handler that
\* has started runs to its end, and the sweep is started again and again
\* with the explorer answering.
FairExpiry ==
  /\ \A i \in 1..MaxDeposits : WF_vars(expiresAt(i))
  /\ WF_vars(\E p \in Procs :
               \/ confirmDeposit_findOne(p)
               \/ \E ok \in BOOLEAN : confirmDeposit_getTransaction(p, ok)
               \/ confirmDeposit_findUser(p)
               \/ confirmDeposit_updateBalance(p)
               \/ confirmDeposit_markCompleted(p)
               \/ processIncomingTransaction(p))
  /\ SF_vars(monitorDeposits_call("r1", TRUE))

SpecExpiryLive == Init /\ [][NextExpiry]_vars /\ FairExpiry

\* Withdrawals to destinations of every kind, one request at a time.
NextDestination ==
  /\ \/ NextFunding
     \/ \E p \in Procs, u \in Depositors, r \in Rails, a \in WithdrawAmounts,
           d \in Destinations : withdraw(p, u, r, a, d)
     \/ \E p \in Procs : processWithdrawal_findById(p)
     \/ \E p \in Procs, ok \in BOOLEAN : processWithdrawal_transfer(p, ok)
     \/ \E p \in Procs : processWithdrawal_updateBalance(p)
     \/ \E p \in Procs : processWithdrawal_save(p)
  /\ Sequential

SpecDestination == Init /\ [][NextDestination]_vars

\* Reads of the Bitcoin explorer that answer or fail, one request at a
\* time.
NextRailReads ==
  /\ \/ \E p \in Procs, u \in Depositors, a \in Addresses,
           d \in {"valid", "malformed"} : addWallet_call(p, u, a, d)
     \/ \E p \in Procs, ok \in BOOLEAN, b \in ChainBalances :
          addWallet_getAddressBalance(p, ok, b)
     \/ \E p \in Procs, a \in Addresses, d \in {"valid", "malformed"},
           ok \in BOOLEAN, b \in ChainBalances :
          getWalletBalance(p, a, d, ok, b)
  /\ Sequential

SpecRailReads == Init /\ [][NextRailReads]_vars
\* ------------------------------------------------------------ the rates
\* The time for which SolanaService serves a fetched price, 5 * 60 * 1000 ms,
\* in minutes.
CacheMinutes == 5
\* The minutes the clock of the price requests runs over.
MaxClock == 7
\* Prices the provider may quote for a coin, in dollars.
Prices == {90, 100}
\* The prices the services return when they have nothing else.
FallbackSol == 80
FallbackBtc == 50000

\* A minute passes.
tick ==
  /\ clock < MaxClock
  /\ clock' = clock + 1
  /\ UNCHANGED <<wallet, txs, puzzles, intentPaid, proc, credited, sent,
                 rateVars>>

\* SolanaService.getSolToUsdRate: the cached price while it is valid; else
\* the provider is asked, and its price is cached for five minutes; when the
\* request fails, times out or has no price in it, the cached price of any
\* age, or 80 when there is none.
getSolToUsdRate(p, ok, price) ==
  /\ CanStart(p)
  /\ LET me == [IdleProc EXCEPT !.op = "getSolToUsdRate", !.rail = "solana",
                                !.pc = "done", !.now = clock]
     IN IF priceCache # 0 /\ clock < priceCacheExpiry
        THEN /\ proc' = [proc EXCEPT ![p] =
                  [me EXCEPT !.result = "cached", !.amount = priceCache]]
             /\ UNCHANGED rateVars
        ELSE IF ok
        THEN /\ priceCache' = price
             /\ priceCacheExpiry' = clock + CacheMinutes
             /\ provided' = [provided EXCEPT
                  !["solana"] = [price |-> price, at |-> clock]]
             /\ proc' = [proc EXCEPT ![p] =
                  [me EXCEPT !.result = "fetched", !.amount = price,
                             !.extCalls = 1]]
        ELSE /\ proc' = [proc EXCEPT ![p] =
                  [me EXCEPT !.result = IF priceCache # 0 THEN "lastCached"
                                        ELSE "fallback",
                             !.amount = IF priceCache # 0 THEN priceCache
                                        ELSE FallbackSol,
                             !.extCalls = 1, !.outage = TRUE]]
             /\ UNCHANGED rateVars
  /\ UNCHANGED <<wallet, txs, puzzles, intentPaid, clock, credited, sent>>

\* BitcoinService.getBtcToUsdRate: the provider is asked on every call; its
\* price is returned, or 50000 when the request fails.  Nothing is kept.
getBtcToUsdRate(p, ok, price) ==
  /\ CanStart(p)
  /\ LET me == [IdleProc EXCEPT !.op = "getBtcToUsdRate", !.rail = "bitcoin",
                                !.pc = "done", !.now = clock,
                                !.extCalls = 1, !.outage = ~ok]
     IN proc' = [proc EXCEPT ![p] =
          IF ok THEN [me EXCEPT !.result = "fetched", !.amount = price]
          ELSE [me EXCEPT !.result = "fallback", !.amount = FallbackBtc]]
  /\ provided' = IF ok
                 THEN [provided EXCEPT
                         !["bitcoin"] = [price |-> price, at |-> clock]]
                 ELSE provided
  /\ UNCHANGED <<wallet, txs, puzzles, intentPaid, clock, credited, sent,
                 priceCache, priceCacheExpiry>>

\* Price requests, one at a time, while the minutes pass.
NextRates ==
  \/ tick
  \/ \E p \in Procs, ok \in BOOLEAN, price \in Prices :
       getSolToUsdRate(p, ok, price)
  \/ \E p \in Procs, ok \in BOOLEAN, price \in Prices :
       getBtcToUsdRate(p, ok, price)

SpecRates == Init /\ [][NextRates]_vars
\* Deposits on the three rails, confirmed one request at a time with chain
\* payments on both sides of the tolerance band, while the price provider is
\* asked for prices between creation and confirmation.
NextFrozen ==
  /\ \/ \E u \in Depositors, a \in DepositAmounts : createPaymentIntent(u, a)
     \/ \E i \in 1..Len(txs) : PayIntent(i)
     \/ \E p \in Procs, t \in 1..Len(txs) : confirmPayment_call(p, t)
     \/ \E p \in Procs, ok \in BOOLEAN : confirmPayment_retrieve(p, ok)
     \/ \E p \in Procs : confirmPayment_findOne(p)
     \/ \E p \in Procs : confirmPayment_findUser(p)
     \/ \E p \in Procs : confirmPayment_updateBalance(p)
     \/ \E p \in Procs : confirmPayment_markCompleted(p)
     \/ \E u \in Depositors, a \in DepositAmounts, r \in CryptoRails,
           x \in Rates : createDepositTransaction(u, a, r, x)
     \/ \E p \in Procs, r \in CryptoRails, t \in 1..Len(txs),
           h \in {"hLow", "hLow4"} : confirmDeposit_call(p, r, t, h)
     \/ \E p \in Procs : confirmDeposit_findOne(p)
     \/ \E p \in Procs, ok \in BOOLEAN : confirmDeposit_getTransaction(p, ok)
     \/ \E p \in Procs : confirmDeposit_findUser(p)
     \/ \E p \in Procs : confirmDeposit_updateBalance(p)
     \/ \E p \in Procs : confirmDeposit_markCompleted(p)
     \/ \E p \in Procs : getSolToUsdRate(p, TRUE, 100)
     \/ \E p \in Procs : getBtcToUsdRate(p, TRUE, 100)
  /\ Sequential

SpecFrozen == Init /\ [][NextFrozen]_vars
\* ------------------------------------------- the Bitcoin transaction built
\* The fee of a withdrawal transaction and the smallest change worth an
\* output, in satoshi.
networkFee == 10000
dustThreshold == 546
\* How many unspent outputs the platform address lists, and their values.
MaxUtxos == 3
UtxoValues == {9000, 15546, 15547, 40000}
\* Withdrawal amounts in satoshi.
SatoshiAmounts == {5000, 20000}

UtxoLists == UNION {[1..n -> UtxoValues] : n \in 0..MaxUtxos}

\* utxos.reduce((sum, utxo) => sum + utxo.value, 0)
RECURSIVE totalBalance(_)
totalBalance(utxos) ==
  IF utxos = <<>> THEN 0 ELSE Head(utxos) + totalBalance(Tail(utxos))

RECURSIVE addInputs(_, _, _, _)
\* Every listed output is spent.
addInputsAll(utxos, inputs, inputAmount, target) == inputs \o utxos

\* The loop over the list: an output is added as input until the inputs
\* added before it cover the target.
addInputs(utxos, inputs, inputAmount, target) ==
  IF utxos = <<>> \/ inputAmount >= target THEN inputs
  ELSE addInputs(Tail(utxos), Append(inputs, Head(utxos)),
                 inputAmount + Head(utxos), target)

\* processWithdrawal from the list of the platform's unspent outputs to the
\* signed transaction: the two refusals, the inputs, the output to the user
\* and the change output.
processWithdrawal_psbt(p, utxos, satoshisAmount) ==
  /\ CanStart(p)
  /\ LET me == [IdleProc EXCEPT !.op = "processWithdrawal_psbt",
                                !.rail = "bitcoin", !.pc = "done",
                                !.dest = "valid", !.utxos = utxos,
                                !.amount = satoshisAmount, !.extCalls = 1]
         inputs == addInputs(utxos, <<>>, 0, satoshisAmount + networkFee)
         change == totalBalance(inputs) - satoshisAmount - networkFee
         toUser == [address |-> "valid", value |-> satoshisAmount]
     IN proc' = [proc EXCEPT ![p] =
          IF Len(utxos) = 0 THEN [me EXCEPT !.result = "noUtxos"]
          ELSE IF totalBalance(utxos) < satoshisAmount + networkFee
            THEN [me EXCEPT !.result = "platformInsufficient"]
          ELSE [me EXCEPT
                  !.result = "built",
                  !.psbt = [inputs |-> inputs,
                            outputs |->
                              IF change > dustThreshold
                              THEN <<toUser, [address |-> "platform",
                                              value |-> change]>>
                              ELSE <<toUser>>]]]
  /\ UNCHANGED <<wallet, txs, puzzles, intentPaid, clock, credited, sent,
                 rateVars>>

\* Transactions built for every list of unspent outputs and amount.
NextPsbt ==
  \E p \in Procs, utxos \in UtxoLists, a \in SatoshiAmounts :
    processWithdrawal_psbt(p, utxos, a)

SpecPsbt == Init /\ [][NextPsbt]_vars
\* What the rails have paid out for a user before the model stops following
\* transfers that are not debited.
MaxSent == 3000

\* SolanaService.processWithdrawal: the 45 s timer wins the race against
\* sendAndConfirmTransaction for a transaction the cluster has accepted; the
\* call throws 'Transaction timeout' and the transfer lands.
processWithdrawal_sendTimeout(p) ==
  /\ proc[p].op = "processWithdrawal" /\ proc[p].pc = "transfer"
  /\ proc[p].rail = "solana" /\ proc[p].dest = "valid"
  /\ sent[proc[p].user] < MaxSent
  /\ sent' = [sent EXCEPT ![proc[p].user] =
                @ + proc[p].amount + withdrawalFee(proc[p].rail)]
  /\ proc' = [proc EXCEPT ![p].pc = "done",
                          ![p].result = "transactionTimeout",
                          ![p].extCalls = @ + 1,
                          ![p].sentFunds = TRUE]
  /\ UNCHANGED <<wallet, txs, intentPaid, clock, credited, puzzles, rateVars>>

\* Withdrawals of a funded wallet, one request at a time, with transfers
\* that the rail accepts, rejects, or accepts after the sender stopped
\* waiting.
NextSendTimeout ==
  /\ \/ NextFunding
     \/ NextWithdrawal
     \/ \E p \in Procs : processWithdrawal_sendTimeout(p)
  /\ Sequential

SpecSendTimeout == Init /\ [][NextSendTimeout]_vars
\* Admin refunds of a card deposit, in any interleaving of two requests and
\* the deliveries that complete the deposit.
NextRefund ==
  \/ NextFunding
  \/ \E p \in Procs, t \in 1..Len(txs) : adminRefund_call(p, t)
  \/ \E p \in Procs : adminRefund_saveRefund(p)

SpecRefund == Init /\ [][NextRefund]_vars
\* ------------------------------------------------------- puzzle deletion
\* The accounts whose role is admin.
Admins == {"carol"}
\* How many deletion refunds of one puzzle the model follows.
MaxRefunds == 2

\* DELETE /puzzles/:id: `protect` reads the requester into req.user.
deletePuzzle_call(p, u, k) ==
  /\ CanStart(p)
  /\ k \in 1..Len(puzzles)
  /\ puzzles[k].refunds < MaxRefunds
  /\ proc' = [proc EXCEPT ![p] =
       [IdleProc EXCEPT !.op = "deletePuzzle", !.pc = "findById", !.user = u,
                        !.udoc = wallet[u], !.tx = k,
                        !.preBalance = wallet[u].balance,
                        !.preCreator = wallet[puzzles[k].creatorId]]]
  /\ UNCHANGED <<wallet, txs, puzzles, intentPaid, clock, credited, sent,
                 rateVars>>

\* deletePuzzle: Puzzle.findById, the ownership test and the solved test on
\* the private copy.  The status of the copy is not looked at.
deletePuzzle_findById(p) ==
  /\ proc[p].op = "deletePuzzle" /\ proc[p].pc = "findById"
  /\ LET doc == puzzles[proc[p].tx]
     IN proc' = [proc EXCEPT ![p] =
          IF doc.creatorId # proc[p].user /\ proc[p].user \notin Admins
            THEN Finish(p, "forbidden")
          ELSE IF doc.solved THEN Finish(p, "alreadySolved")
          ELSE [proc[p] EXCEPT !.pc = "savePuzzle", !.amount = doc.value,
                               !.ref = doc.status]]
  /\ UNCHANGED <<wallet, txs, puzzles, intentPaid, clock, credited, sent,
                 rateVars>>

\* deletePuzzle: puzzle.status = 'deleted' and puzzle.save(), which $sets
\* the status.
deletePuzzle_savePuzzle(p) ==
  /\ proc[p].op = "deletePuzzle" /\ proc[p].pc = "savePuzzle"
  /\ puzzles' = [puzzles EXCEPT ![proc[p].tx].status = "deleted"]
  /\ proc' = [proc EXCEPT ![p].pc = "updateBalance"]
  /\ UNCHANGED <<wallet, txs, intentPaid, clock, credited, sent, rateVars>>

\* deletePuzzle: req.user.updateBalance(puzzle.value + 1)
deletePuzzle_updateBalance(p) ==
  /\ proc[p].op = "deletePuzzle" /\ proc[p].pc = "updateBalance"
  /\ LET u == proc[p].user
         amt == proc[p].amount + adminFee
         doc == updateBalanceDoc(proc[p].udoc, amt)
     IN /\ wallet' = [wallet EXCEPT ![u] = saveWallet(@, doc, amt)]
        /\ proc' = [proc EXCEPT ![p].udoc = doc, ![p].pc = "saveTransaction"]
  /\ puzzles' = [puzzles EXCEPT ![proc[p].tx].refunds = @ + 1]
  /\ UNCHANGED <<txs, intentPaid, clock, credited, sent, rateVars>>

\* The refund entry of a deletion as the route builds it: to the requester,
\* with no transactionId.
deletionRefund(userId, amount, now) ==
  [transactionId |-> FALSE, type |-> "refund", status |-> "completed",
   fromUserId |-> None, toUserId |-> userId, usd |-> amount,
   rail |-> "internal", expectedAmount |-> 0, paymentIntentId |-> None,
   externalTransactionId |-> None, blockchainTxHash |-> None,
   processedAt |-> now, failureReason |-> None, pastExpiry |-> FALSE]

\* deletePuzzle: the refund entry is saved.
deletePuzzle_saveTransaction(p) ==
  /\ proc[p].op = "deletePuzzle" /\ proc[p].pc = "saveTransaction"
  /\ LET doc == deletionRefund(proc[p].user, proc[p].amount + adminFee,
                               clock + 1)
     IN IF transactionValid(doc)
        THEN /\ txs' = Append(txs, doc)
             /\ credited' = Append(credited, 0)
             /\ clock' = clock + 1
             /\ proc' = [proc EXCEPT ![p] =
                  Finish(p, "deleted")]
        ELSE /\ UNCHANGED <<txs, credited, clock>>
             /\ proc' = [proc EXCEPT ![p] =
                  Finish(p, "validationError")]
  /\ UNCHANGED <<wallet, puzzles, intentPaid, sent, rateVars>>

NextDelete ==
  \/ \E p \in Procs, u \in Users, k \in 1..Len(puzzles) :
       deletePuzzle_call(p, u, k)
  \/ \E p \in Procs : deletePuzzle_findById(p)
  \/ \E p \in Procs : deletePuzzle_savePuzzle(p)
  \/ \E p \in Procs : deletePuzzle_updateBalance(p)
  \/ \E p \in Procs : deletePuzzle_saveTransaction(p)

\* Puzzles created and deleted, one request at a time.
NextSeqDelete ==
  /\ \/ NextFunding
     \/ \E p \in Procs, u \in Depositors, v \in PuzzleValues :
          createPuzzle_call(p, u, v)
     \/ \E p \in Procs : createPuzzle_savePuzzle(p)
     \/ \E p \in Procs : createPuzzle_updateBalance(p)
     \/ \E p \in Procs : createPuzzle_saveTransaction(p)
     \/ NextDelete
  /\ Sequential

SpecSeqDelete == Init /\ [][NextSeqDelete]_vars
\* A puzzle, correct answers to it by another user and requests to delete
\* it, in any interleaving.
NextEscrow ==
  \/ NextFunding
  \/ \E p \in Procs, u \in Depositors, v \in PuzzleValues :
       createPuzzle_call(p, u, v)
  \/ \E p \in Procs : createPuzzle_savePuzzle(p)
  \/ \E p \in Procs : createPuzzle_updateBalance(p)
  \/ \E p \in Procs : createPuzzle_saveTransaction(p)
  \/ \E p \in Procs, k \in 1..Len(puzzles) : solve_call(p, "bob", k, TRUE)
  \/ \E p \in Procs : solve_findOne(p)
  \/ \E p \in Procs : solve_savePuzzle(p)
  \/ \E p \in Procs : solve_creditSolver(p)
  \/ \E p \in Procs : solve_debitCreator(p)
  \/ \E p \in Procs : solve_saveTransaction(p)
  \/ \E p \in Procs, k \in 1..Len(puzzles) :
       deletePuzzle_call(p, puzzles[k].creatorId, k)
  \/ \E p \in Procs : deletePuzzle_findById(p)
  \/ \E p \in Procs : deletePuzzle_savePuzzle(p)
  \/ \E p \in Procs : deletePuzzle_updateBalance(p)
  \/ \E p \in Procs : deletePuzzle_saveTransaction(p)

SpecEscrow == Init /\ [][NextEscrow]_vars

NextSeq ==
  /\ \/ NextFunding
     \/ NextWithdrawal
     \/ \E p \in Procs : withdraw_timeout(p)
     \/ NextPuzzle
  /\ Sequential

\* Funding, withdrawals and puzzles, one request after the other.
SpecSeq == Init /\ [][NextSeq]_vars

NextWebhook ==
  \/ \E u \in Depositors, a \in DepositAmounts :
       txs = <<>> /\ createPaymentIntent(u, a)
  \/ \E i \in 1..Len(txs) : PayIntent(i)
  \/ \E p \in Procs, t \in 1..Len(txs), e \in EventTypes, g \in Signatures :
       credited[t] < MaxCredits /\ stripeWebhook(p, t, e, g)
  \/ \E p \in Procs : handlePaymentIntentSucceeded_findOne(p)
  \/ \E p \in Procs : handlePaymentIntentSucceeded_findUser(p)
  \/ \E p \in Procs : handlePaymentIntentSucceeded_updateBalance(p)
  \/ \E p \in Procs : handlePaymentIntentSucceeded_markCompleted(p)
  \/ \E p \in Procs : handlePaymentIntentFailed_findOne(p)
  \/ \E p \in Procs : handlePaymentIntentFailed_save(p)
  \/ \E p \in Procs, c \in ChargeIds, g \in Signatures :
       handleChargeDispute(p, c, g)
  \/ \E p \in Procs, t \in 1..Len(txs), e \in EventTypes, g \in Signatures :
       credited[t] < MaxCredits /\ paymentsWebhook(p, t, e, g)
  \/ \E p \in Procs, ok \in BOOLEAN : confirmPayment_retrieve(p, ok)
  \/ \E p \in Procs : confirmPayment_findOne(p)
  \/ \E p \in Procs : confirmPayment_findUser(p)
  \/ \E p \in Procs : confirmPayment_updateBalance(p)
  \/ \E p \in Procs : confirmPayment_markCompleted(p)
  \/ \E p \in Procs : StripeService_handlePaymentIntentFailed_findOne(p)
  \/ \E p \in Procs : StripeService_handlePaymentIntentFailed_markFailed(p)

\* The two Stripe webhook endpoints and one card deposit.
SpecWebhook == Init /\ [][NextWebhook]_vars

NextSeqWebhook == NextWebhook /\ Sequential

\* The same, one request after the other.
SpecSeqWebhook == Init /\ [][NextSeqWebhook]_vars

Next ==
  \/ NextWebhook
  \/ NextStripe
  \/ NextCrypto
  \/ NextWithdrawal
  \/ \E p \in Procs : withdraw_timeout(p)
  \/ NextPuzzle
  \/ \E p \in Procs, t \in 1..Len(txs) : adminRefund_call(p, t)
  \/ \E p \in Procs : adminRefund_saveRefund(p)
  \/ \E i \in 1..Len(txs) : expiresAt(i)
  \/ \E p \in Procs, u \in Users, r \in Rails, a \in WithdrawAmounts,
        d \in Destinations : withdraw(p, u, r, a, d)
  \/ \E p \in Procs, u \in Users, a \in Addresses,
        d \in {"valid", "malformed"} : addWallet_call(p, u, a, d)
  \/ \E p \in Procs, ok \in BOOLEAN, b \in ChainBalances :
       addWallet_getAddressBalance(p, ok, b)
  \/ \E p \in Procs, a \in Addresses, d \in {"valid", "malformed"},
        ok \in BOOLEAN, b \in ChainBalances : getWalletBalance(p, a, d, ok, b)
  \/ NextRates
  \/ \E p \in Procs : processWithdrawal_sendTimeout(p)
  \/ NextPsbt
  \/ NextDelete

Spec == Init /\ [][Next]_vars

\* ------------------------------------------------------------ properties
\* What a ledger entry contributes to a user's balance.
signedAmount(t, u) ==
  IF t.status # "completed" THEN 0
  ELSE (IF t.toUserId = u THEN t.usd ELSE 0)
         - (IF t.fromUserId = u THEN t.usd ELSE 0)

RECURSIVE ledgerSum(_, _)
ledgerSum(u, n) ==
  IF n = 0 THEN 0 ELSE ledgerSum(u, n - 1) + signedAmount(txs[n], u)

\* What the deposits credited to a user at least once are worth.
RECURSIVE depositedSum(_, _)
depositedSum(u, n) ==
  IF n = 0 THEN 0
  ELSE depositedSum(u, n - 1)
         + (IF txs[n].type = "deposit" /\ txs[n].toUserId = u
               /\ credited[n] > 0
            THEN txs[n].usd ELSE 0)

\* Every balance credit made for a user's deposits.
RECURSIVE creditedSum(_, _)
creditedSum(u, n) ==
  IF n = 0 THEN 0
  ELSE creditedSum(u, n - 1)
         + (IF txs[n].type = "deposit" /\ txs[n].toUserId = u
            THEN credited[n] * txs[n].usd ELSE 0)

RECURSIVE bountySum(_)
bountySum(n) == IF n = 0 THEN 0 ELSE bountySum(n - 1) + puzzles[n].value

Quiescent == \A p \in Procs : Idle(p)

ConfirmOps == {"confirmDeposit", "confirmPayment"}

\* C1: whenever no request is in flight, each user's wallet balance equals
\* the signed sum of amount.usd over the completed ledger entries that touch
\* the user (plus as toUserId, minus as fromUserId).
C1_BalanceEqualsLedger ==
  Quiescent => \A u \in Users : wallet[u].balance = ledgerSum(u, Len(txs))

\* C2: concurrent confirmations of one pending deposit credit it once: a
\* user's balance never exceeds what the deposits credited to the user are
\* worth.
C2_CreditedOnce ==
  \A u \in Users : wallet[u].balance <= depositedSum(u, Len(txs))

\* C3: concurrent correct solve requests against one unsolved puzzle pay
\* its bounty out once: the solvers together hold no more than the bounties
\* of the puzzles.
C3_OnePayout ==
  wallet["bob"].balance + wallet["carol"].balance <= bountySum(Len(puzzles))

\* C4: concurrent withdrawals of one user succeed only as far as the
\* balance covers them: the rails never pay out more for a user than was
\* credited to the user, and the stored balance is never negative.
C4_WithdrawalsCovered ==
  \A u \in Users :
    /\ wallet[u].balance >= 0
    /\ sent[u] <= creditedSum(u, Len(txs))

\* C5: a confirmation (confirmDeposit or confirmPayment) that is made, one
\* request after the other, for a deposit already completed with the same
\* reference, and whose reference the rail reports as paid, returns
\* alreadyProcessed and leaves the user's balance and the entry (status,
\* processedAt, blockchainTxHash included) as they were; the entry stays
\* credited once.
C5_SecondConfirmChangesNothing ==
  \A p \in Procs :
    (/\ proc[p].pc = "done"
     /\ proc[p].op \in ConfirmOps
     /\ proc[p].wasCompleted
     /\ proc[p].rail = proc[p].preTx.rail
     /\ proc[p].result # "railUnavailable")
    => /\ proc[p].result = "alreadyProcessed"
       /\ txs[proc[p].tx] = proc[p].preTx
       /\ wallet[proc[p].preTx.toUserId].balance = proc[p].preBalance
       /\ credited[proc[p].tx] = 1

\* A second confirmation with the reference of the first has returned.
C5_Witness ==
  \E p \in Procs :
    /\ proc[p].pc = "done"
    /\ proc[p].op \in ConfirmOps
    /\ proc[p].wasCompleted
    /\ proc[p].result = "alreadyProcessed"
    /\ proc[p].ref \in {proc[p].preTx.blockchainTxHash,
                        proc[p].preTx.externalTransactionId}

\* C6: a withdrawal that ended in an error for the client (the rail call
\* failed, the route timed out, or a later step threw) leaves the user's
\* balance no lower than it was before the request.
C6_FailedWithdrawalRestored ==
  \A p \in Procs :
    (/\ proc[p].pc = "done"
     /\ proc[p].op = "processWithdrawal"
     /\ (proc[p].result # "completed" \/ proc[p].timedOut))
    => wallet[proc[p].user].balance >= proc[p].preBalance

\* C7: in every state a deposit entry has been credited to the balance if
\* and only if its status is completed.
C7_CreditedIffCompleted ==
  \A i \in Deposits : (credited[i] > 0) <=> (txs[i].status = "completed")

\* C8: one chain transaction hash is the blockchainTxHash of at most one
\* completed deposit.
C8_OneDepositPerHash ==
  \A i, j \in Deposits :
    (/\ txs[i].status = "completed" /\ txs[j].status = "completed"
     /\ txs[i].blockchainTxHash # None
     /\ txs[i].blockchainTxHash = txs[j].blockchainTxHash)
    => i = j

\* C9: no withdrawal has an outbound transfer accepted by the rail while
\* the user's balance has not been debited for it.
C9_DebitBeforeTransfer ==
  \A p \in Procs :
    (proc[p].op = "processWithdrawal" /\ proc[p].sentFunds)
      => proc[p].debited

\* C10: a confirmation that returns alreadyProcessed has made no call to
\* the rail.
C10_NoRailCallOnReplay ==
  \A p \in Procs :
    (proc[p].pc = "done" /\ proc[p].result = "alreadyProcessed")
      => proc[p].extCalls = 0

TerminalStatuses == {"completed", "failed"}

\* C11: once an entry's status is completed or failed, no step changes it
\* to another status.
C11_StatusMonotonic ==
  [][\A i \in 1..Len(txs) :
       txs[i].status \in TerminalStatuses
         => txs'[i].status = txs[i].status]_vars

SucceededOps == {"handlePaymentIntentSucceeded", "confirmPayment",
                 "confirmDeposit"}

\* C12: a confirmation that starts on a deposit whose status is failed or
\* expired neither credits the balance nor completes the entry.
C12_FailedDepositRejected ==
  \A p \in Procs :
    (/\ proc[p].op \in SucceededOps
     /\ proc[p].preTx.status \in {"failed", "expired"})
    => /\ proc[p].pc \notin {"updateBalance", "markCompleted"}
       /\ proc[p].result # "confirmed"

\* C14: once a card deposit has been credited, every later delivery of
\* its payment_intent.succeeded event leaves the user's balance at what
\* the credited deposits are worth.
C14_ReplayKeepsBalance ==
  \A i \in Deposits :
    (txs[i].rail = "stripe" /\ credited[i] >= 1)
      => wallet[txs[i].toUserId].balance
           = depositedSum(txs[i].toUserId, Len(txs))

solveEntries(v) ==
  {i \in 1..Len(txs) : /\ txs[i].type = "puzzle_solve"
                       /\ txs[i].status = "completed"
                       /\ txs[i].usd = v}

\* C16: the bounty is taken from the creator once, when the puzzle is
\* created.  A correct solve of a puzzle of value V by another user, with
\* one request running at a time, adds V to the solver's balance, leaves the
\* creator's balance as the solve found it, and records exactly one
\* completed puzzle_solve entry for V.
C16_BountyDebitedOnce ==
  \A p \in Procs :
    (/\ proc[p].op = "solve" /\ proc[p].pc = "done" /\ proc[p].correct
     /\ proc[p].result \notin {"notFound", "alreadySolved", "ownPuzzle"})
    => LET k == proc[p].tx
       IN /\ wallet[puzzles[k].solverId].balance
               = proc[p].preBalance + puzzles[k].value
          /\ wallet[puzzles[k].creatorId].balance
               = proc[p].preCreator.balance
          /\ Cardinality(solveEntries(puzzles[k].value)) = 1

\* C17: a solve request with an incorrect answer, and a solve request that
\* finds its puzzle already solved, change no user's balance, totalEarnings
\* or totalSpent and add no ledger entry, whatever other requests run at the
\* same time.  The first is every step of a request whose answer is
\* incorrect; the second is the lookup that reads a solved puzzle, which
\* ends the request.
C17_NoMovementWithoutCorrectSolve ==
  [][\A p \in Procs :
       /\ (/\ proc'[p] # proc[p]
           /\ proc'[p].op = "solve" /\ ~proc'[p].correct)
          => UNCHANGED <<wallet, txs>>
       /\ (/\ proc'[p] # proc[p]
           /\ proc[p].op = "solve" /\ proc[p].pc = "findOne"
           /\ puzzles[proc[p].tx].solved)
          => /\ proc'[p].pc = "done"
             /\ proc'[p].result = "alreadySolved"
             /\ UNCHANGED <<wallet, txs, puzzles>>]_vars

\* One request answered wrongly and had its attempt recorded, another found
\* the puzzle solved; only the solver of the puzzle holds its value.
C17_Witness ==
  \E p, q \in Procs :
    /\ proc[p].op = "solve" /\ proc[p].pc = "done"
    /\ proc[p].result = "incorrect" /\ ~proc[p].correct
    /\ proc[q].op = "solve" /\ proc[q].pc = "done"
    /\ proc[q].result = "alreadySolved"
    /\ puzzles[proc[p].tx].attempts = 2
    /\ \A u \in Users \ {puzzles[proc[p].tx].creatorId,
                          puzzles[proc[p].tx].solverId} :
         wallet[u] = NewWallet

\* C18: with one request running at a time, a debit that would take a
\* balance below zero is rejected and writes nothing: no stored balance,
\* totalEarnings or totalSpent is ever negative, and after a solve whose
\* creator debit was rejected the creator's stored wallet is what the solve
\* found.
C18_RejectedDebitWritesNothing ==
  /\ \A u \in Users : /\ wallet[u].balance >= 0
                       /\ wallet[u].totalEarnings >= 0
                       /\ wallet[u].totalSpent >= 0
  /\ \A p \in Procs :
       (/\ proc[p].op = "solve" /\ proc[p].pc = "done"
        /\ proc[p].result = "validationError" /\ ~proc[p].debited)
       => wallet[puzzles[proc[p].tx].creatorId] = proc[p].preCreator

\* A solve asked the creator for a bounty that the creator's balance, after
\* a withdrawal, no longer covers.
C18_Witness ==
  \E p \in Procs :
    /\ proc[p].op = "solve" /\ proc[p].pc = "done"
    /\ proc[p].result = "validationError" /\ ~proc[p].debited
    /\ proc[p].preCreator.balance < puzzles[proc[p].tx].value
    /\ wallet[puzzles[proc[p].tx].creatorId].balance
         = proc[p].preCreator.balance
    /\ wallet[puzzles[proc[p].tx].solverId].balance
         = puzzles[proc[p].tx].value

\* The completed withdrawal entries that carry an id, a processing time and
\* the reference the rail returned.
withdrawalEntries(ref) ==
  {i \in 1..Len(txs) :
     /\ txs[i].type = "withdrawal" /\ txs[i].status = "completed"
     /\ txs[i].transactionId /\ txs[i].processedAt > 0
     /\ ref \in {txs[i].externalTransactionId, txs[i].blockchainTxHash}}

\* C19: when the outbound transfer of processWithdrawal has succeeded, the
\* call ends by returning a persisted withdrawal entry with status
\* completed, a processing time, a transactionId and the transfer id or
\* chain hash.
C19_SentWithdrawalRecorded ==
  \A p \in Procs :
    (/\ proc[p].op = "processWithdrawal" /\ proc[p].pc = "done"
     /\ proc[p].sentFunds)
    => /\ proc[p].result = "completed"
       /\ withdrawalEntries(proc[p].ref) # {}

\* C20: settlement of a solve is all or nothing.  Once no request is
\* running, a puzzle is marked solved exactly when its solver has been
\* credited and a completed puzzle_solve entry for its value exists.
C20_SettlementAllOrNothing ==
  Quiescent =>
    \A k \in 1..Len(puzzles) :
      puzzles[k].solved
        <=> (puzzles[k].payouts >= 1 /\ solveEntries(puzzles[k].value) # {})

BadSignatures == {"invalid", "missing"}

\* C15: a step of a webhook request whose signature is missing or fails
\* verification ends the request with a signature error and changes no
\* balance, no entry and nothing else that is stored.
C15_UnsignedWebhookDoesNothing ==
  [][\A p \in Procs :
       (proc'[p] # proc[p] /\ proc'[p].sig \in BadSignatures)
         => /\ proc'[p].pc = "done"
            /\ proc'[p].result \in {"invalidSignature", "missingSignature"}
            /\ proc'[p].extCalls = 0
            /\ UNCHANGED <<wallet, txs, intentPaid, credited, clock>>]_vars

\* A request with a bad signature that claims success for an unpaid intent
\* of a pending deposit has been answered.
C15_Witness ==
  \E p \in Procs :
    /\ proc[p].sig = "invalid"
    /\ proc[p].op = "handlePaymentIntentSucceeded"
    /\ proc[p].pc = "done"
    /\ proc[p].result = "invalidSignature"
    /\ txs[proc[p].tx].status = "pending"
    /\ proc[p].ref \notin intentPaid
    /\ wallet[txs[proc[p].tx].toUserId].balance = 0

\* The completed puzzle_solve entries on the internal rail that pay v from
\* the creator to the solver.
solveEntriesFor(creator, solver, v) ==
  {i \in solveEntries(v) : /\ txs[i].rail = "internal"
                           /\ txs[i].fromUserId = creator
                           /\ txs[i].toUserId = solver}

\* C21: a correct answer by a non-creator on an unsolved puzzle of value V,
\* with one request running at a time, marks the puzzle solved by the
\* solver, adds V to the solver's balance, takes V from the creator's balance
\* and appends one completed puzzle_solve entry on the internal rail from
\* the creator to the solver for V.
C21_CorrectSolveSettles ==
  \A p \in Procs :
    (/\ proc[p].op = "solve" /\ proc[p].pc = "done" /\ proc[p].correct
     /\ proc[p].result \notin {"notFound", "alreadySolved", "ownPuzzle"}
     /\ proc[p].preCreator.balance >= puzzles[proc[p].tx].value)
    => LET k == proc[p].tx
           creator == puzzles[k].creatorId
           solver == puzzles[k].solverId
       IN /\ puzzles[k].solved
          /\ solver \in Users \ {creator}
          /\ wallet[solver].balance = proc[p].preBalance + puzzles[k].value
          /\ wallet[creator].balance
               = proc[p].preCreator.balance - puzzles[k].value
          /\ Cardinality(solveEntriesFor(creator, solver, puzzles[k].value))
               = 1

\* C22: every solve request by a user other than the creator on an active
\* puzzle adds exactly one attempt to the puzzle, whatever the outcome, a
\* puzzle that is already solved included (one request at a time).
C22_AttemptAlwaysRecorded ==
  \A p \in Procs :
    (/\ proc[p].op = "solve" /\ proc[p].pc = "done"
     /\ proc[p].result \notin {"notFound", "ownPuzzle"})
    => puzzles[proc[p].tx].attempts = proc[p].preAttempts + 1

\* C23: a Solana confirmDeposit on a pending entry whose chain transaction
\* exists but failed on chain marks the entry failed, with a failure reason,
\* and credits nothing.
C23_ChainFailureMarksFailed ==
  \A p \in Procs :
    (/\ proc[p].op = "confirmDeposit" /\ proc[p].pc = "done"
     /\ proc[p].rail = "solana" /\ proc[p].preTx.rail = "solana"
     /\ proc[p].preTx.status = "pending"
     /\ proc[p].ref \in FailedHashes
     /\ proc[p].result # "railUnavailable")
    => /\ txs[proc[p].tx].status = "failed"
       /\ txs[proc[p].tx].failureReason # None
       /\ wallet[proc[p].preTx.toUserId].balance = proc[p].preBalance

\* C24: a confirmDeposit call or a passive match that finds a pending
\* deposit after its expiry time neither credits the balance nor completes
\* the entry (one request at a time).
C24_ExpiredDepositUnconfirmable ==
  \A p \in Procs :
    (/\ proc[p].op \in ConfirmDepositOps
     /\ proc[p].tx \in 1..Len(txs)
     /\ proc[p].preTx.status = "pending"
     /\ proc[p].preTx.pastExpiry)
    => /\ credited[proc[p].tx] = 0
       /\ txs[proc[p].tx].status # "completed"

\* C25: a deposit that is still pending when its expiry time passes leaves
\* the pending state eventually; no deposit stays pending forever.
C25_ExpiredDepositLeavesPending ==
  \A i \in 1..MaxDeposits :
    (i \in Deposits /\ txs[i].pastExpiry /\ txs[i].status = "pending")
      ~> (i \in Deposits /\ txs[i].status # "pending")

BadDestinations == {"malformed", "short"}

\* C26: a withdrawal whose destination is not an address or account of its
\* rail is rejected before any call to the rail is made, and changes no
\* balance and no ledger entry, on the card rail, Solana and Bitcoin alike.
C26_BadDestinationBeforeRailCall ==
  [][\A p \in Procs :
       (/\ proc'[p] # proc[p]
        /\ proc'[p].op = "processWithdrawal"
        /\ proc'[p].dest \in BadDestinations)
       => /\ proc'[p].extCalls = 0
          /\ UNCHANGED <<wallet, txs, sent>>]_vars

\* C27: a read of the rail that failed surfaces as an error to its caller:
\* a request whose explorer read failed does not end by storing or returning
\* a balance.
C27_OutageIsAnError ==
  \A p \in Procs :
    (proc[p].pc = "done" /\ proc[p].outage)
      => proc[p].result = "railUnavailable"

\* C30: the stored audit counters never decrease: no step of any request, in
\* any interleaving, leaves a user's totalEarnings or totalSpent smaller
\* than it was.
C30_AuditCountersMonotonic ==
  [][\A u \in Users :
       /\ wallet'[u].totalEarnings >= wallet[u].totalEarnings
       /\ wallet'[u].totalSpent >= wallet[u].totalSpent]_vars

\* The coin has a price that the provider gave less than five minutes ago.
rateFresh(a) ==
  provided[a].price # 0 /\ clock - provided[a].at < CacheMinutes

Fallback(a) == IF a = "solana" THEN FallbackSol ELSE FallbackBtc

\* C28: the price of either coin follows the decision table: a price fetched
\* less than five minutes ago is returned without asking the provider; else
\* the provider is asked, its price is kept and returned; when it fails, the
\* last price it gave is returned, or the coin's fallback when it gave none.
C28_RateDecisionTable ==
  [][\A p \in Procs :
       (proc'[p] # proc[p]
          /\ proc'[p].op \in {"getSolToUsdRate", "getBtcToUsdRate"})
         => LET a == proc'[p].rail
                me == proc'[p]
            IN IF rateFresh(a)
               THEN /\ me.amount = provided[a].price
                    /\ me.extCalls = 0
                    /\ provided' = provided
               ELSE /\ me.extCalls = 1
                    /\ IF ~me.outage
                       THEN /\ me.amount = provided'[a].price
                            /\ provided'[a].at = clock
                       ELSE me.amount = IF provided[a].price # 0
                                        THEN provided[a].price
                                        ELSE Fallback(a)]_vars

\* C29: a price that came from the provider is at most five minutes old when
\* getSolToUsdRate returns it.
C29_StalenessBounded ==
  \A p \in Procs :
    (proc[p].pc = "done" /\ proc[p].op = "getSolToUsdRate"
       /\ proc[p].result # "fallback")
      => proc[p].now - provided["solana"].at <= CacheMinutes

\* C31: a deposit is credited with the amount.usd and to the toUserId its
\* entry was created with: no step changes an entry's amount, receiver or
\* expected native amount; every credit made for a deposit adds exactly the
\* entry's amount.usd to the wallet of its toUserId and changes nothing else
\* in any wallet; and a crypto deposit is completed only by a chain payment
\* within the rail's band around the expected amount stored at creation.
C31_CreditIsFrozenAmount ==
  [][/\ \A i \in 1..Len(txs) :
          /\ txs'[i].usd = txs[i].usd
          /\ txs'[i].toUserId = txs[i].toUserId
          /\ txs'[i].expectedAmount = txs[i].expectedAmount
     /\ \A i \in Deposits :
          credited'[i] # credited[i]
            => wallet' = [wallet EXCEPT ![txs[i].toUserId] =
                 [@ EXCEPT !.balance = @ + txs[i].usd,
                           !.totalEarnings = @ + txs[i].usd]]
     /\ \A i \in Deposits :
          (/\ txs[i].rail \in CryptoRails
           /\ txs[i].status = "pending" /\ txs'[i].status = "completed")
            => LET expected == txs[i].expectedAmount
                   received == ReceivedAmount(txs'[i].blockchainTxHash)
                   percent  == IF txs[i].rail = "bitcoin" THEN 5 ELSE 3
               IN /\ 100 * (received - expected) <= percent * expected
                  /\ 100 * (expected - received) <= percent * expected]_vars

\* A Bitcoin deposit was completed by a payment 4% short and a card deposit
\* by its intent, after the provider had quoted a price, and the wallet holds
\* the two amounts asked for at creation.
C31_Witness ==
  /\ \E i, j \in Deposits :
       /\ txs[i].rail = "bitcoin" /\ txs[i].status = "completed"
       /\ txs[i].blockchainTxHash = "hLow4"
       /\ txs[j].rail = "stripe" /\ txs[j].status = "completed"
       /\ credited[i] = 1 /\ credited[j] = 1
       /\ wallet[txs[i].toUserId].balance = txs[i].usd + txs[j].usd
  /\ provided["bitcoin"].price # 0

\* The sum of the first n values of a list.
RECURSIVE prefixSum(_, _)
prefixSum(values, n) ==
  IF n = 0 THEN 0 ELSE values[n] + prefixSum(values, n - 1)

\* C32: in every Bitcoin withdrawal transaction that is built, the inputs
\* are the shortest prefix of the platform's list of unspent outputs that
\* covers amount + fee, the only output besides change pays the amount to
\* the destination, a change output of inputs - amount - fee to the platform
\* address is there exactly when that residual is above 546 satoshi, and the
\* outputs sum to no more than the inputs.
C32_TransactionShape ==
  \A p \in Procs :
    (proc[p].op = "processWithdrawal_psbt" /\ proc[p].result = "built")
      => LET utxos == proc[p].utxos
             ins == proc[p].psbt.inputs
             outs == proc[p].psbt.outputs
             n == Len(ins)
             target == proc[p].amount + networkFee
             residual == prefixSum(ins, n) - target
             toUser == [address |-> proc[p].dest, value |-> proc[p].amount]
         IN /\ n <= Len(utxos) /\ ins = SubSeq(utxos, 1, n)
            /\ prefixSum(utxos, n) >= target
            /\ \A m \in 0..(n - 1) : prefixSum(utxos, m) < target
            /\ IF residual > 546
               THEN outs = <<toUser, [address |-> "platform",
                                      value |-> residual]>>
               ELSE outs = <<toUser>>
            /\ prefixSum([i \in 1..Len(outs) |-> outs[i].value], Len(outs))
                 <= prefixSum(ins, n)

\* A transaction was built from the first two of three listed outputs, with
\* change.
C32_Witness ==
  \E p \in Procs :
    /\ proc[p].op = "processWithdrawal_psbt" /\ proc[p].result = "built"
    /\ Len(proc[p].utxos) = 3 /\ Len(proc[p].psbt.inputs) = 2
    /\ Len(proc[p].psbt.outputs) = 2

\* C33: no funds leave without a matching debit: a withdrawal request that
\* has ended and whose transfer the rail accepted has taken amount + fee
\* from the user's balance.
C33_SentIsDebited ==
  \A p \in Procs :
    (/\ proc[p].op = "processWithdrawal" /\ proc[p].pc = "done"
     /\ proc[p].sentFunds)
    => wallet[proc[p].user].balance
         = proc[p].preBalance
             - (proc[p].amount + withdrawalFee(proc[p].rail))

\* C34: a withdrawal that the route has answered with a timeout error has no
\* later effect: while its processWithdrawal is still running, no step sends
\* funds, changes a wallet or adds a ledger entry.
C34_TimedOutWithdrawalInert ==
  [][\A p \in Procs :
       (/\ proc[p].op = "processWithdrawal" /\ proc[p].timedOut
        /\ ~Idle(p))
         => UNCHANGED <<sent, wallet, txs>>]_vars

\* The completed refund entries that reverse entry t.
refundEntries(t) ==
  {i \in 1..Len(txs) :
     /\ txs[i].type = "refund" /\ txs[i].status = "completed"
     /\ txs[i].fromUserId = txs[t].toUserId
     /\ txs[i].toUserId = txs[t].fromUserId
     /\ txs[i].usd = txs[t].usd}

C36_DeletionRefundedOnce ==
  [][/\ \A k \in 1..Len(puzzles') : puzzles'[k].refunds <= 1
     /\ \A p \in Procs :
          (/\ proc[p].op = "deletePuzzle" /\ ~Idle(p)
           /\ proc[p].ref = "deleted")
          => wallet' = wallet]_vars

\* C37: the bounty of a puzzle leaves escrow at most once: in no
\* interleaving of a correct solve and a delete of the same puzzle is the
\* solver paid the value and the deletion refund credited as well.
C37_BountyLeavesEscrowOnce ==
  \A k \in 1..Len(puzzles) :
    ~(puzzles[k].payouts >= 1 /\ puzzles[k].refunds >= 1)

\* C38: the refund of a deleted puzzle goes to the puzzle's creator, whoever
\* asks for the deletion: every credit made for a deletion adds value + 1 to
\* the creator's balance and changes no other wallet.
C38_RefundGoesToCreator ==
  [][\A k \in 1..Len(puzzles) :
       puzzles'[k].refunds # puzzles[k].refunds
         => LET c == puzzles[k].creatorId
                amt == puzzles[k].value + adminFee
            IN wallet' = [wallet EXCEPT ![c] =
                 [@ EXCEPT !.balance = @ + amt,
                           !.totalEarnings = @ + amt]]]_vars

\* C39: for a withdrawal that has been debited and whose entry was built as
\* completed, the fee taken from the balance on top of the amount is the
\* processingFee written in the entry and the fee the route checked the
\* balance against and reports to the caller.
C39_OneFeeEverywhere ==
  \A p \in Procs :
    (/\ proc[p].op = "processWithdrawal" /\ proc[p].pc = "done"
     /\ proc[p].debited)
    => LET fee == proc[p].preBalance - wallet[proc[p].user].balance
                    - proc[p].amount
           entry == createWithdrawal(proc[p].user, proc[p].amount,
                                     proc[p].rail, proc[p].ref)
       IN /\ fee = entry.processingFee
          /\ fee = routeFee(proc[p].rail)

====
